---- MODULE Spec2Model ----
(***************************************************************************)
(* Model of the release-asset pipeline of cargo-gh:                        *)
(*   - cargo-ghinstall: with_retry (retry.rs), the release client          *)
(*     (github.rs) and the install run (installer.rs);                     *)
(*   - cargo-ghdist: the release client (github.rs) and the publish run    *)
(*     (builder.rs).                                                       *)
(* Time is counted in abstract ticks.                                      *)
(***************************************************************************)
EXTENDS Integers, Sequences, FiniteSets, TLC

(***************************************************************************)
(* Bounds of the model.                                                    *)
(***************************************************************************)
\* largest max_retries a RetryConfig of the model carries
MaxRetries == 2
\* longest time (ticks) one invocation of the operation takes
MaxOpTime == 1
\* largest wall-clock deadline (ticks) a RetryConfig of the model carries
MaxDeadline == 3
\* the --max-retries an install run of the model is given
InstallMaxRetries == 1
\* number of publish runs made one after the other
MaxRuns == 2
\* number of other releases the repository may hold
MaxOtherReleases == 2
\* number of assets of a release handed to find_asset
MaxAssets == 3
\* number of lines of a checksum manifest handed to parse_checksum
MaxLines == 2
\* number of files handed to create_archive
MaxFiles == 2
\* number of executables of an extracted archive
MaxExes == 2
\* number of install runs executing at once
MaxInstallers == 2
\* number of targets of a publish run whose release find_asset is given
MaxTargets == 2
\* number of assets of a release whose suffixes are tried
MaxSuffixAssets == 2

(***************************************************************************)
(* Retrying transport: cargo-ghinstall/src/retry.rs                        *)
(***************************************************************************)
VARIABLES
    retry_config,      \* the RetryConfig handed to with_retry
    rpc,               \* position of with_retry: idle, call, sleep, done
    attempt,           \* with_retry's attempt counter = invocations of operation()
    elapsed,           \* time since the backoff was reset
    current_interval,  \* ExponentialBackoff::current_interval
    sleepFor,          \* the delay granted by the backoff for the next retry
    willFail,          \* the operation fails its first willFail invocations, then succeeds
    errKinds,          \* the failures an invocation of the operation can end with
    lastErr,           \* error of the latest failed invocation ("none" before)
    rresult,           \* what with_retry returned
    gaveUp             \* the backoff reported the deadline as exhausted

rvars == <<retry_config, rpc, attempt, elapsed, current_interval, sleepFor,
           willFail, errKinds, lastErr, rresult, gaveUp>>

\* the install run: cargo-ghinstall/src/installer.rs
VARIABLES
    iargs,             \* Installer::args after the configuration was merged in
    iconfig,           \* the configuration of the repository Installer::new loaded
    irelease,          \* the release the forge holds for (owner, repo, tag)
    ipc,               \* position of Installer::run
    release,           \* run's local: the release get_release returned
    asset,             \* run's local: the asset find_asset selected
    temp_file,         \* run's local: the downloaded asset
    checksum_file,     \* verify_checksum's local: the downloaded manifest
    extracted,         \* extract_archive unpacked the downloaded asset
    iresult,           \* what Installer::run returned
    installDir,        \* the files of the install directory
    dirCreated,        \* create_dir_all(install_dir) was called by the run
    fallbackInvoked,   \* fallback_cargo_install was called by the run
    downloads          \* names of the assets download_asset was called for

ivars == <<iargs, iconfig, irelease, ipc, release, asset, temp_file, checksum_file,
           extracted, iresult, installDir, dirCreated, fallbackInvoked, downloads>>

\* the forge and the publish run: cargo-ghdist/src/github.rs, builder.rs
VARIABLES
    pargs,             \* DistBuilder::args after the configuration was merged in
    penv,              \* the environment: git context, GITHUB_TOKEN
    forge,             \* the releases of the repository, newest first
    nextId,            \* the next id the forge gives a release or an asset
    runs,              \* number of the current publish run
    ppc,               \* position of DistBuilder::run
    tag,               \* run's local: the tag
    ti,                \* run's loop over the targets: index of the next target
    all_archives,      \* run's local: the files to upload
    release_notes,     \* run's local: the release notes
    prelease,          \* run's local: the id of the release in hand
    ai,                \* run's loop over all_archives: index of the next file
    found_asset,       \* run's local: the id asset_exists returned
    presult,           \* what DistBuilder::run returned
    phist              \* what the current run did so far

pvars == <<pargs, penv, forge, nextId, runs, ppc, tag, ti, all_archives,
           release_notes, prelease, ai, found_asset, presult, phist>>

\* a single call of one of the pure functions of the two crates
VARIABLES
    fcall,             \* the function called and its arguments
    fret               \* what the call returned

fvars == <<fcall, fret>>

\* install runs of several processes into one install directory
VARIABLES
    installers,        \* per process: its arguments, the executables it found,
                       \* its position in install_binaries and what it returned
    sharedDir          \* the files of the install directory

cvars == <<installers, sharedDir>>

vars == <<rvars, ivars, pvars, fvars, cvars>>

\* max_elapsed_time: None
NoDeadline == -1

\* next_backoff(): None
NoBackoff == -1

\* failures an attempt can end with: a timeout, HTTP 503, HTTP 429, HTTP 404
ErrKinds == {"timeout", "s503", "s429", "s404"}

\* the failures section 4.3 calls terminal: HTTP 4xx other than 429
TerminalKinds == {"s404"}

\* RetryConfig::default(): 1s, 30s, 60s scaled to ticks (1, 2, MaxDeadline)
DefaultRetryConfig(n) ==
    [max_retries |-> n, initial_interval |-> 1, max_interval |-> 2,
     max_elapsed_time |-> MaxDeadline]

\* the --no-retry configuration built by Installer::new
NoRetryConfig ==
    [max_retries |-> 0, initial_interval |-> 0, max_interval |-> 0,
     max_elapsed_time |-> 0]

\* the retry policies the model runs with_retry under
RetryConfigs ==
    {NoRetryConfig}
    \cup {DefaultRetryConfig(n) : n \in 0..MaxRetries}
    \cup {[max_retries |-> n, initial_interval |-> 1, max_interval |-> 2,
           max_elapsed_time |-> d] : n \in 0..MaxRetries,
                                     d \in {NoDeadline} \cup 0..MaxDeadline}

\* how long one invocation of the operation may take
OpDurations == 0..MaxOpTime

\* ExponentialBackoff: the randomized interval, current +/- 50%
RandomizedIntervals(cur) == (cur - (cur \div 2))..(cur + (cur \div 2))

\* ExponentialBackoff::increment_current_interval, multiplier 1.5
IncrementCurrentInterval(cfg, cur) ==
    IF 3 * cur >= 2 * cfg.max_interval THEN cfg.max_interval ELSE (3 * cur) \div 2

NextBackoff_NoDeadline(cfg, el, randomized) == randomized

\* ExponentialBackoff::next_backoff: None once the deadline has passed or
\* would pass during the delay
NextBackoff(cfg, el, randomized) ==
    IF cfg.max_elapsed_time # NoDeadline /\ el > cfg.max_elapsed_time
    THEN NoBackoff
    ELSE IF cfg.max_elapsed_time # NoDeadline
            /\ el + randomized > cfg.max_elapsed_time
         THEN NoBackoff
         ELSE randomized

IsTransient_OffByOne(cfg, n, kind) == n < cfg.max_retries

IsTransient_OneMore(cfg, n, kind) == n <= cfg.max_retries + 1

\* with_retry's Err arm: the failure is handed to the backoff as transient
\* while attempt <= max_retries, whatever the error is
IsTransient(cfg, n, kind) == n <= cfg.max_retries

RNone == [status |-> "none", err |-> "none"]
ROk == [status |-> "ok", err |-> "none"]
RErr(kind) == [status |-> "err", err |-> kind]

\* the state of with_retry before it is called
RetryIdle ==
    /\ rpc = "idle"
    /\ attempt = 0
    /\ elapsed = 0
    /\ current_interval = 0
    /\ sleepFor = 0
    /\ willFail = 0
    /\ errKinds = {}
    /\ lastErr = "none"
    /\ rresult = RNone
    /\ gaveUp = FALSE

\* with_retry is entered: to_backoff(), attempt = 0, retry() resets the backoff
WithRetryBegin(cfg, fails, kinds) ==
    /\ retry_config' = cfg
    /\ rpc' = "call"
    /\ attempt' = 0
    /\ elapsed' = 0
    /\ current_interval' = cfg.initial_interval
    /\ sleepFor' = 0
    /\ willFail' = fails
    /\ errKinds' = kinds
    /\ lastErr' = "none"
    /\ rresult' = RNone
    /\ gaveUp' = FALSE

\* an invocation of the operation that succeeds: Ok(result) is returned
R_AttemptOk(d) ==
    /\ rpc = "call"
    /\ attempt + 1 > willFail
    /\ attempt' = attempt + 1
    /\ elapsed' = elapsed + d
    /\ rresult' = ROk
    /\ rpc' = "done"
    /\ UNCHANGED <<retry_config, current_interval, sleepFor, willFail, errKinds,
                   lastErr, gaveUp>>
    /\ UNCHANGED <<ivars, pvars, fvars, cvars>>

\* an invocation of the operation that fails with kind: transient errors ask
\* the backoff for a delay, permanent ones and an exhausted backoff return
R_AttemptFail(d, kind, randomized) ==
    /\ rpc = "call"
    /\ attempt + 1 <= willFail
    /\ kind \in errKinds
    /\ attempt' = attempt + 1
    /\ elapsed' = elapsed + d
    /\ lastErr' = kind
    /\ IF IsTransient(retry_config, attempt + 1, kind)
       THEN LET nb == NextBackoff(retry_config, elapsed + d, randomized) IN
            IF nb = NoBackoff
            THEN /\ rresult' = RErr(kind)
                 /\ rpc' = "done"
                 /\ gaveUp' = TRUE
                 /\ UNCHANGED <<current_interval, sleepFor>>
            ELSE /\ rpc' = "sleep"
                 /\ sleepFor' = nb
                 /\ current_interval' =
                        IncrementCurrentInterval(retry_config, current_interval)
                 /\ UNCHANGED <<rresult, gaveUp>>
       ELSE /\ rresult' = RErr(kind)
            /\ rpc' = "done"
            /\ UNCHANGED <<current_interval, sleepFor, gaveUp>>
    /\ UNCHANGED <<retry_config, willFail, errKinds>>
    /\ UNCHANGED <<ivars, pvars, fvars, cvars>>

\* the delay before the next attempt
R_Sleep ==
    /\ rpc = "sleep"
    /\ elapsed' = elapsed + sleepFor
    /\ rpc' = "call"
    /\ UNCHANGED <<retry_config, attempt, current_interval, sleepFor, willFail,
                   errKinds, lastErr, rresult, gaveUp>>
    /\ UNCHANGED <<ivars, pvars, fvars, cvars>>

(***************************************************************************)
(* Names are sequences of tokens; substring tests are tests on contiguous  *)
(* runs of tokens.                                                         *)
(***************************************************************************)

\* str::contains
Contains(s, t) ==
    \E i \in 0..(Len(s) - Len(t)) : SubSeq(s, i + 1, i + Len(t)) = t

\* str::ends_with
EndsWith(s, t) ==
    Len(s) >= Len(t) /\ SubSeq(s, Len(s) - Len(t) + 1, Len(s)) = t

\* Option::None of a name (bin, tag)
NoName == <<>>

\* the archive suffixes is_archive, download_asset and extract_archive know
ArchiveSuffixes == {<<".tar.gz">>, <<".tgz">>, <<".zip">>, <<".tar.xz">>, <<".tar.bz2">>}

\* github.rs is_archive
is_archive(name) == \E suf \in ArchiveSuffixes : EndsWith(name, suf)

\* find_asset found nothing / no asset selected yet
NoAsset == [name |-> <<>>, bytes |-> "none", lines |-> <<>>, exes |-> <<>>]

find_asset_AnySuffix(rel, target, bin_name) ==
    LET ok(i) == Contains(rel.assets[i].name, target)
                 /\ (bin_name = NoName \/ Contains(rel.assets[i].name, bin_name))
        idx == {i \in 1..Len(rel.assets) : ok(i)}
    IN  IF idx = {} THEN NoAsset
        ELSE rel.assets[CHOOSE i \in idx : \A j \in idx : i <= j]

\* GitHubClient::find_asset: the first asset, in listed order, whose name
\* contains the target, is an archive and contains bin_name when one is given
find_asset(rel, target, bin_name) ==
    LET ok(i) == /\ Contains(rel.assets[i].name, target)
                 /\ is_archive(rel.assets[i].name)
                 /\ (bin_name = NoName \/ Contains(rel.assets[i].name, bin_name))
        idx == {i \in 1..Len(rel.assets) : ok(i)}
    IN  IF idx = {} THEN NoAsset
        ELSE rel.assets[CHOOSE i \in idx : \A j \in idx : i <= j]

TempSuffix_NoBz2(name) ==
    IF EndsWith(name, <<".tar.gz">>) THEN <<".tar.gz">>
    ELSE IF EndsWith(name, <<".tgz">>) THEN <<".tgz">>
    ELSE IF EndsWith(name, <<".zip">>) THEN <<".zip">>
    ELSE IF EndsWith(name, <<".tar.xz">>) THEN <<".tar.xz">>
    ELSE <<>>

\* download_asset: the suffix given to the temporary file
TempSuffix(name) ==
    IF EndsWith(name, <<".tar.gz">>) THEN <<".tar.gz">>
    ELSE IF EndsWith(name, <<".tgz">>) THEN <<".tgz">>
    ELSE IF EndsWith(name, <<".zip">>) THEN <<".zip">>
    ELSE IF EndsWith(name, <<".tar.xz">>) THEN <<".tar.xz">>
    ELSE IF EndsWith(name, <<".tar.bz2">>) THEN <<".tar.bz2">>
    ELSE <<>>

\* the temporary file download_asset returns for an asset
TempFileOf(a) == [name |-> <<"tmp">> \o TempSuffix(a.name), bytes |-> a.bytes,
                  exes |-> a.exes]

NoTempFile == [name |-> <<>>, bytes |-> "none", exes |-> <<>>]

\* utils::extract_archive recognises the archive by the file name's suffix
CanExtract(name) ==
    \/ EndsWith(name, <<".tar.gz">>) \/ EndsWith(name, <<".tgz">>)
    \/ EndsWith(name, <<".tar.xz">>)
    \/ EndsWith(name, <<".tar.bz2">>)
    \/ EndsWith(name, <<".zip">>)

\* utils::calculate_sha256: the lower-case hex digest of the file's bytes
calculate_sha256(bytes) ==
    CASE bytes = "b1" -> "ab12"
      [] bytes = "b2" -> "cd34"
      [] OTHER -> "ef56"

to_lowercase_Identity(d) == d

\* str::to_lowercase on a digest
to_lowercase(d) ==
    CASE d = "AB12" -> "ab12"
      [] d = "Ab12" -> "ab12"
      [] d = "CD34" -> "cd34"
      [] d = "EF56" -> "ef56"
      [] OTHER -> d

\* the tokens str::split_whitespace splits a line at
Whitespace == {" ", "\t"}

\* str::split_whitespace: the maximal runs of non-whitespace tokens of a line
RECURSIVE SplitWhitespace(_)
SplitWhitespace(line) ==
    IF line = <<>> THEN <<>>
    ELSE IF Head(line) \in Whitespace THEN SplitWhitespace(Tail(line))
    ELSE LET stops == {i \in 1..Len(line) : line[i] \in Whitespace}
             n == IF stops = {} THEN Len(line)
                  ELSE (CHOOSE i \in stops : \A j \in stops : i <= j) - 1
         IN  <<SubSeq(line, 1, n)>> \o SplitWhitespace(SubSeq(line, n + 1, Len(line)))

\* [&str]::join(" ")
RECURSIVE JoinSpace(_)
JoinSpace(parts) ==
    IF parts = <<>> THEN <<>>
    ELSE IF Len(parts) = 1 THEN parts[1]
    ELSE parts[1] \o <<" ">> \o JoinSpace(Tail(parts))

\* parse_checksum found no line for the file
NoChecksum == <<>>

RECURSIVE parse_checksum_Suffix(_, _)
RECURSIVE parse_checksum(_, _)

parse_checksum_Suffix(content, filename) ==
    IF content = <<>> THEN NoChecksum
    ELSE LET parts == SplitWhitespace(Head(content))
             file == JoinSpace(Tail(parts))
         IN  IF Len(parts) >= 2 /\ EndsWith(file, filename)
             THEN parts[1]
             ELSE parse_checksum_Suffix(Tail(content), filename)

\* Installer::parse_checksum: the checksum of the first line whose file part is
\* filename or ends with "/" + filename
parse_checksum(content, filename) ==
    IF content = <<>> THEN NoChecksum
    ELSE LET parts == SplitWhitespace(Head(content))
             file == JoinSpace(Tail(parts))
         IN  IF Len(parts) >= 2
                /\ (file = filename \/ EndsWith(file, <<"/">> \o filename))
             THEN parts[1]
             ELSE parse_checksum(Tail(content), filename)

\* the conventional names of a checksum manifest
ChecksumNames == {<<"SHA256SUMS">>, <<"checksums.txt">>, <<"sha256sums.txt">>}

\* the first asset of the release satisfying want, NoAsset when none does
FirstAsset(rel, want(_)) ==
    LET idx == {i \in 1..Len(rel.assets) : want(rel.assets[i])}
    IN  IF idx = {} THEN NoAsset
        ELSE rel.assets[CHOOSE i \in idx : \A j \in idx : i <= j]

\* verify_checksum: the checksum asset of the release
ChecksumAsset(rel) ==
    LET want(a) == a.name \in ChecksumNames IN FirstAsset(rel, want)

\* verify_signature: the signature asset of the release for the asset
SignatureAsset(rel, a) ==
    LET want(x) == x.name = a.name \o <<".sig">> \/ x.name = a.name \o <<".asc">>
    IN  FirstAsset(rel, want)

\* results of Installer::run
INone == [status |-> "none", err |-> "none", info |-> <<>>]
IOk == [status |-> "ok", err |-> "none", info |-> <<>>]
IErr(kind, info) == [status |-> "err", err |-> kind, info |-> info]

ChecksumsDiffer_CaseSensitive(actual, expected) == actual # expected

\* verify_checksum's comparison of the two digests
ChecksumsDiffer(actual, expected) ==
    to_lowercase(actual) # to_lowercase(expected)

\* verify_checksum after the manifest was downloaded: Ok or the error
VerifyDownloaded(manifest, a, file) ==
    LET expected == parse_checksum(manifest.lines, a.name)
        actual == calculate_sha256(file.bytes)
    IN  IF expected = NoChecksum
        THEN IErr("ChecksumVerification",
                  <<a.name, <<"Unknown">>, <<"Not found in checksum file">>>>)
        ELSE IF Len(expected) # 1 \/ ChecksumsDiffer(actual, expected[1])
        THEN IErr("ChecksumVerification", <<a.name, expected, <<actual>>>>)
        ELSE IOk

\* Path::file_stem: the name without its last extension
FileStem(name) ==
    IF Len(name) > 1 /\ name[Len(name)] \in {".exe", ".sh", ".bat"}
    THEN SubSeq(name, 1, Len(name) - 1)
    ELSE name

binary_name_Stem(exe, name) == FileStem(exe.name)

\* install_binary: the name given, or else the stem of the source's file name
binary_name(exe, name) == IF name # NoName THEN name ELSE FileStem(exe.name)

\* install_binary: the file is copied to install_dir/name (the stem of the
\* source when no name is given), replacing a file of that name
install_binary(files, exe, name) ==
    LET dest == binary_name(exe, name)
    IN  {f \in files : f.name # dest} \cup {[name |-> dest, bytes |-> exe.bytes]}

\* install_binaries, --bins: every executable, in order
RECURSIVE InstallAll(_, _)
InstallAll(files, exes) ==
    IF exes = <<>> THEN files
    ELSE InstallAll(install_binary(files, Head(exes), NoName), Tail(exes))

FirstExe_OrFirst(exes, name) ==
    LET idx == {i \in 1..Len(exes) : Contains(exes[i].name, name)}
    IN  IF idx = {} THEN 1 ELSE CHOOSE i \in idx : \A j \in idx : i <= j

\* the first executable whose file name contains name, 0 when none does
FirstExe(exes, name) ==
    LET idx == {i \in 1..Len(exes) : Contains(exes[i].name, name)}
    IN  IF idx = {} THEN 0 ELSE CHOOSE i \in idx : \A j \in idx : i <= j

DefaultExe_First(exes, name) == 1

\* install_binaries, default mode: the first executable whose file name
\* contains the repository name, or else executables.first()
DefaultExe(exes, name) ==
    LET i == FirstExe(exes, name) IN IF i # 0 THEN i ELSE 1

\* the file names of the executables, as the error lists them
ExeNames(exes) == [i \in 1..Len(exes) |-> exes[i].name]

NoExecutables_Never(exes) == FALSE

\* install_binaries: executables.is_empty(), checked before create_dir_all
NoExecutables(exes) == exes = <<>>

\* Installer::install_binaries: [result, dir (created), files]
install_binaries(args, exes, files) ==
    IF NoExecutables(exes)
    THEN [result |-> IErr("NoExecutablesFound", <<>>), dir |-> FALSE, files |-> files]
    ELSE IF args.bins
    THEN [result |-> IOk, dir |-> TRUE, files |-> InstallAll(files, exes)]
    ELSE IF args.bin # NoName
    THEN LET i == FirstExe(exes, args.bin) IN
         IF i # 0
         THEN [result |-> IOk, dir |-> TRUE,
               files |-> install_binary(files, exes[i], args.bin)]
         ELSE [result |-> IErr("BinaryNotFound", <<args.bin>> \o ExeNames(exes)),
               dir |-> TRUE, files |-> files]
    ELSE IF exes = <<>>
    THEN [result |-> IErr("NoExecutablesFound", <<>>), dir |-> TRUE, files |-> files]
    ELSE LET j == DefaultExe(exes, args.repo)
         IN  [result |-> IOk, dir |-> TRUE,
              files |-> install_binary(files, exes[j], args.repo)]

\* the configuration file has no section for the repository
NoRepoConfig == [present |-> FALSE]

merge_with_args_FlagOnly(args, repo_config) == args

\* Config::merge_with_args: the repository's section fills in --bin when none
\* was given and switches signature verification on
merge_with_args(args, repo_config) ==
    IF repo_config.present
    THEN [args EXCEPT
            !.bin = IF @ = NoName /\ repo_config.bin # NoName
                    THEN repo_config.bin ELSE @,
            !.verify_signature = @ \/ repo_config.verify_signature]
    ELSE args

\* Installer::new: the retry policy of the client
InstallerRetryConfig(args) ==
    IF args.no_retry THEN NoRetryConfig ELSE DefaultRetryConfig(args.max_retries)

\* an operation that fails at every invocation with_retry can make
AlwaysFails == MaxRetries + 2

\* failures of requests for something that exists: transport level only
TransportKinds == {"timeout", "s503", "s429"}

\* the state of the install run before Installer::run is called
InstallIdle ==
    /\ iargs = [no_retry |-> FALSE]
    /\ iconfig = NoRepoConfig
    /\ irelease = [exists |-> FALSE]
    /\ ipc = "idle"
    /\ release = [exists |-> FALSE]
    /\ asset = NoAsset
    /\ temp_file = NoTempFile
    /\ checksum_file = NoAsset
    /\ extracted = FALSE
    /\ iresult = INone
    /\ installDir = {}
    /\ dirCreated = FALSE
    /\ fallbackInvoked = FALSE
    /\ downloads = <<>>

\* with_retry has returned and its result was taken: its locals are gone
WithRetryEnd ==
    /\ rpc' = "idle"
    /\ attempt' = 0
    /\ elapsed' = 0
    /\ current_interval' = 0
    /\ sleepFor' = 0
    /\ willFail' = 0
    /\ errKinds' = {}
    /\ lastErr' = "none"
    /\ rresult' = RNone
    /\ gaveUp' = FALSE
    /\ UNCHANGED retry_config

\* Installer::run ends with result r
InstallReturn(r) ==
    /\ iresult' = r
    /\ ipc' = "done"
    /\ WithRetryEnd

\* download_asset is called for a: with_retry is entered
DownloadBegin(a, fails) ==
    /\ downloads' = Append(downloads, a.name)
    /\ WithRetryBegin(retry_config, fails, ErrKinds)

\* Installer::run up to get_release's with_retry
I_Run(fails) ==
    /\ ipc = "start"
    /\ rpc = "idle"
    /\ IF irelease.exists
       THEN WithRetryBegin(retry_config, fails, TransportKinds)
       ELSE WithRetryBegin(retry_config, AlwaysFails, {"s404"})
    /\ ipc' = "get_release"
    /\ UNCHANGED <<iargs, iconfig, irelease, release, asset, temp_file, checksum_file,
                   extracted, iresult, installDir, dirCreated, fallbackInvoked,
                   downloads>>
    /\ UNCHANGED <<pvars, fvars, cvars>>

FallbackPermitted_Always(args) == TRUE

\* run: a failed get_release falls back to cargo install unless --no-fallback
FallbackPermitted(args) == ~args.no_fallback

\* get_release failed: the fallback when it is permitted, else ReleaseNotFound
I_GetReleaseErr ==
    /\ ipc = "get_release"
    /\ rpc = "done"
    /\ rresult.status = "err"
    /\ IF FallbackPermitted(iargs)
       THEN /\ ipc' = "fallback"
            /\ fallbackInvoked' = TRUE
            /\ WithRetryEnd
            /\ UNCHANGED iresult
       ELSE /\ InstallReturn(IErr("ReleaseNotFound", <<iargs.tag>>))
            /\ UNCHANGED fallbackInvoked
    /\ UNCHANGED <<iargs, iconfig, irelease, release, asset, temp_file, checksum_file,
                   extracted, installDir, dirCreated, downloads>>
    /\ UNCHANGED <<pvars, fvars, cvars>>

\* fallback_cargo_install: the run's result is cargo install's
I_Fallback(ok) ==
    /\ ipc = "fallback"
    /\ InstallReturn(IF ok THEN IOk ELSE IErr("Installation", <<>>))
    /\ UNCHANGED <<iargs, iconfig, irelease, release, asset, temp_file, checksum_file,
                   extracted, installDir, dirCreated, fallbackInvoked, downloads>>
    /\ UNCHANGED <<pvars, fvars, cvars>>

AvailableAssets_MarkerOnly(rel) == <<<<"No assets available">>>>

\* run: the names of the release's assets as AssetNotFound carries them
AvailableAssets(rel) ==
    IF rel.assets = <<>> THEN <<<<"No assets available">>>>
    ELSE [i \in 1..Len(rel.assets) |-> rel.assets[i].name]

\* get_release succeeded: find_asset, then download_asset or AssetNotFound
I_GetReleaseOk(fails) ==
    /\ ipc = "get_release"
    /\ rpc = "done"
    /\ rresult.status = "ok"
    /\ release' = irelease
    /\ LET a == find_asset(irelease, iargs.target, iargs.bin) IN
       IF a = NoAsset
       THEN /\ InstallReturn(IErr("AssetNotFound",
                <<iargs.target, irelease.tag>> \o AvailableAssets(irelease)))
            /\ UNCHANGED <<asset, downloads>>
       ELSE /\ asset' = a
            /\ DownloadBegin(a, fails)
            /\ ipc' = "download"
            /\ UNCHANGED iresult
    /\ UNCHANGED <<iargs, iconfig, irelease, temp_file, checksum_file, extracted, installDir,
                   dirCreated, fallbackInvoked>>
    /\ UNCHANGED <<pvars, fvars, cvars>>

\* a download_asset of the run failed: DownloadFailed
I_DownloadErr ==
    /\ ipc \in {"download", "download_checksum", "download_signature"}
    /\ rpc = "done"
    /\ rresult.status = "err"
    /\ InstallReturn(IErr("DownloadFailed", <<downloads[Len(downloads)]>>))
    /\ UNCHANGED <<iargs, iconfig, irelease, release, asset, temp_file, checksum_file,
                   extracted, installDir, dirCreated, fallbackInvoked, downloads>>
    /\ UNCHANGED <<pvars, fvars, cvars>>

\* run after the checksum step: verify_signature looks for the signature asset
\* and downloads it, or the run goes on to extract the archive
SignatureStep(fails) ==
    IF iargs.verify_signature
    THEN LET sig == SignatureAsset(release, asset) IN
         IF sig = NoAsset
         THEN /\ InstallReturn(IErr("SignatureVerification", <<asset.name>>))
              /\ UNCHANGED downloads
         ELSE /\ DownloadBegin(sig, fails)
              /\ ipc' = "download_signature"
              /\ UNCHANGED iresult
    ELSE /\ ipc' = "extract"
         /\ WithRetryEnd
         /\ UNCHANGED <<iresult, downloads>>

MissingManifest_Pass == IOk

\* verify_checksum's result when the release has no checksum asset
MissingManifest == IErr("ChecksumFileNotFound", <<>>)

\* the asset was downloaded: verify_checksum looks for the manifest and
\* downloads it (ChecksumFileNotFound when there is none), unless skipped
I_DownloadOk(fails) ==
    /\ ipc = "download"
    /\ rpc = "done"
    /\ rresult.status = "ok"
    /\ temp_file' = TempFileOf(asset)
    /\ IF ~iargs.skip_checksum
       THEN LET m == ChecksumAsset(release) IN
            IF m = NoAsset
            THEN IF MissingManifest = IOk
                 THEN SignatureStep(fails)
                 ELSE /\ InstallReturn(MissingManifest)
                      /\ UNCHANGED downloads
            ELSE /\ DownloadBegin(m, fails)
                 /\ ipc' = "download_checksum"
                 /\ UNCHANGED iresult
       ELSE SignatureStep(fails)
    /\ UNCHANGED <<iargs, iconfig, irelease, release, asset, checksum_file, extracted,
                   installDir, dirCreated, fallbackInvoked>>
    /\ UNCHANGED <<pvars, fvars, cvars>>

\* the manifest was downloaded: the digests are compared; a mismatch ends the
\* run, a match leads to the signature step
I_ChecksumDownloaded(fails) ==
    /\ ipc = "download_checksum"
    /\ rpc = "done"
    /\ rresult.status = "ok"
    /\ checksum_file' = ChecksumAsset(release)
    /\ LET v == VerifyDownloaded(ChecksumAsset(release), asset, temp_file) IN
       IF v # IOk
       THEN /\ InstallReturn(v)
            /\ UNCHANGED downloads
       ELSE SignatureStep(fails)
    /\ UNCHANGED <<iargs, iconfig, irelease, release, asset, temp_file, extracted, installDir,
                   dirCreated, fallbackInvoked>>
    /\ UNCHANGED <<pvars, fvars, cvars>>

\* the signature was downloaded: it is accepted without a check
I_SignatureDownloaded ==
    /\ ipc = "download_signature"
    /\ rpc = "done"
    /\ rresult.status = "ok"
    /\ ipc' = "extract"
    /\ WithRetryEnd
    /\ UNCHANGED <<iargs, iconfig, irelease, release, asset, temp_file, checksum_file,
                   extracted, iresult, installDir, dirCreated, fallbackInvoked,
                   downloads>>
    /\ UNCHANGED <<pvars, fvars, cvars>>

\* extract_archive and install_binaries
I_ExtractInstall ==
    /\ ipc = "extract"
    /\ IF ~CanExtract(temp_file.name)
       THEN /\ InstallReturn(IErr("ArchiveExtraction", <<temp_file.name>>))
            /\ UNCHANGED <<extracted, installDir, dirCreated>>
       ELSE LET r == install_binaries(iargs, temp_file.exes, installDir) IN
            /\ extracted' = TRUE
            /\ InstallReturn(r.result)
            /\ installDir' = r.files
            /\ dirCreated' = r.dir
    /\ UNCHANGED <<iargs, iconfig, irelease, release, asset, temp_file, checksum_file,
                   fallbackInvoked, downloads>>
    /\ UNCHANGED <<pvars, fvars, cvars>>

(***************************************************************************)
(* The forge and the publish run: cargo-ghdist/src/github.rs, builder.rs   *)
(***************************************************************************)

\* releases().list().send() returns one page of releases
PerPage == 2

\* no release in hand, no asset found
NoId == 0

\* the forge's release with the tag, NoId when it holds none
ReleaseIdByTag(f, tag_name) ==
    LET idx == {i \in 1..Len(f) : f[i].tag = tag_name}
    IN  IF idx = {} THEN NoId ELSE f[CHOOSE i \in idx : \A j \in idx : i <= j].id

\* the forge's release with the id (one exists)
ReleaseById(f, id) == f[CHOOSE i \in 1..Len(f) : f[i].id = id]

asset_exists_AllPages(f, release_id, asset_name) ==
    LET rels == {i \in 1..Len(f) : f[i].id = release_id}
    IN  IF rels = {} THEN NoId
        ELSE LET r == f[CHOOSE i \in rels : TRUE]
                 idx == {k \in 1..Len(r.assets) : r.assets[k].name = asset_name}
             IN  IF idx = {} THEN NoId
                 ELSE r.assets[CHOOSE k \in idx : \A l \in idx : k <= l].id

\* GitHubClient::asset_exists: the id of the asset called asset_name of the
\* release with release_id, looked for in the listed releases
asset_exists(f, release_id, asset_name) ==
    LET page == SubSeq(f, 1, IF Len(f) < PerPage THEN Len(f) ELSE PerPage)
        rels == {i \in 1..Len(page) : page[i].id = release_id}
    IN  IF rels = {} THEN NoId
        ELSE LET r == page[CHOOSE i \in rels : TRUE]
                 idx == {k \in 1..Len(r.assets) : r.assets[k].name = asset_name}
             IN  IF idx = {} THEN NoId
                 ELSE r.assets[CHOOSE k \in idx : \A l \in idx : k <= l].id

ForgeDelete_Kept(f, asset_id) == f

\* the forge after the asset with the id was deleted
ForgeDelete(f, asset_id) ==
    [i \in 1..Len(f) |->
        [f[i] EXCEPT !.assets = SelectSeq(f[i].assets, LAMBDA a : a.id # asset_id)]]

\* the forge after a file was added to the release as asset id
ForgeUpload(f, release_id, id, file) ==
    [i \in 1..Len(f) |->
        IF f[i].id = release_id
        THEN [f[i] EXCEPT !.assets =
                 Append(f[i].assets, [id |-> id, name |-> file.name, bytes |-> file.bytes])]
        ELSE f[i]]

\* the release holds an asset of that name: the forge rejects the upload
NameTaken(f, release_id, name) ==
    \E i \in 1..Len(f) : /\ f[i].id = release_id
                         /\ \E k \in 1..Len(f[i].assets) : f[i].assets[k].name = name

\* builder.rs get_tag: the explicit tag, else the tag on HEAD, else
\* version-sha under --hash; NoName when none can be found
get_tag(args, env) ==
    IF args.tag # NoName THEN args.tag
    ELSE IF ~env.git THEN NoName
    ELSE IF env.head_tag # NoName THEN env.head_tag
    ELSE IF args.hash THEN <<"0.1.0", "-", "abcdef01">>
    ELSE NoName

\* run: the archive of a target, {repo}-{target}-{tag} plus create_archive's suffix
ArchiveFile(args, tag_name, target, run) ==
    [name |-> <<args.repo, "-", target, "-">> \o tag_name
              \o <<IF args.format = "tgz" THEN ".tar.gz" ELSE ".zip">>,
     bytes |-> run, lines |-> <<>>]

generate_checksums_SelfLine(files, run) ==
    [name |-> <<"SHA256SUMS">>, bytes |-> run,
     lines |-> [i \in 1..Len(files) |-> <<files[i].bytes, " ", " ">> \o files[i].name]
               \o <<<<run, " ", " ", "SHA256SUMS">>>>]

\* packager::generate_checksums: the SHA256SUMS file, a line for every file
generate_checksums(files, run) ==
    [name |-> <<"SHA256SUMS">>, bytes |-> run,
     lines |-> [i \in 1..Len(files) |-> <<files[i].bytes, " ", " ">> \o files[i].name]]

ShouldContinueOnError_Enabled == TRUE

\* DistBuilder::should_continue_on_error
should_continue_on_error == FALSE

\* GitHubClient::new: the requests made through octocrab carry a token
OctocrabHasToken(args, env) == args.github_token \/ env.env_token

\* GitHubClient::get_token: the token of upload_asset and delete_asset
get_token(args, env) == env.env_token

\* results of DistBuilder::run
PNone == [status |-> "none", err |-> "none", info |-> <<>>]
POk == [status |-> "ok", err |-> "none", info |-> <<>>]
PErr(kind, info) == [status |-> "err", err |-> kind, info |-> info]

\* the metadata of a release
MetaOf(r) == [draft |-> r.draft, target_commitish |-> r.target_commitish,
              notes |-> r.notes]

\* no release was found by the lookup
NoMeta == [draft |-> FALSE, target_commitish |-> FALSE, notes |-> <<>>]

\* what is remembered of the current run
NoHist ==
    [dir |-> FALSE, built |-> <<>>, failed |-> <<>>, checksums |-> FALSE,
     existed |-> FALSE, meta |-> NoMeta, held |-> {}, uploaded |-> <<>>,
     requests |-> <<>>, conflict |-> FALSE, transport |-> FALSE, auto |-> "none",
     tolerated |-> {}]

\* the locals of a run that has not started
PublishLocals ==
    /\ tag = NoName
    /\ ti = 0
    /\ all_archives = <<>>
    /\ release_notes = <<>>
    /\ prelease = NoId
    /\ ai = 0
    /\ found_asset = NoId
    /\ presult = PNone
    /\ phist = NoHist

\* the state of the publish side before any run
PublishIdle ==
    /\ pargs = [tag |-> NoName]
    /\ penv = [git |-> FALSE]
    /\ forge = <<>>
    /\ nextId = 1
    /\ runs = 0
    /\ ppc = "idle"
    /\ PublishLocals

\* DistBuilder::run ends with result r
PublishReturn(r) ==
    /\ presult' = r
    /\ ppc' = "done"

\* run: get_tag, parse_repository, create_dir_all(output_dir)
P_Start ==
    /\ ppc = "start"
    /\ LET t == get_tag(pargs, penv) IN
       IF t = NoName
       THEN /\ PublishReturn(PErr("NoTag", <<>>))
            /\ UNCHANGED <<tag, ti, phist>>
       ELSE /\ tag' = t
            /\ phist' = [phist EXCEPT !.dir = TRUE]
            /\ ti' = 1
            /\ ppc' = IF pargs.targets = <<>> THEN "built" ELSE "build"
            /\ UNCHANGED presult
    /\ UNCHANGED <<pargs, penv, forge, nextId, runs, all_archives, release_notes,
                   prelease, ai, found_asset>>
    /\ UNCHANGED <<rvars, ivars, fvars, cvars>>

\* run's loop body: build_for_target and create_archive for the next target
P_Build(outcome) ==
    /\ ppc = "build"
    /\ LET target == pargs.targets[ti]
           last == ti = Len(pargs.targets)
       IN
       /\ phist' = [phist EXCEPT
                       !.built = Append(@, target),
                       !.failed = IF outcome = "ok" THEN @ ELSE Append(@, target)]
       /\ IF outcome = "ok"
          THEN /\ all_archives' =
                    Append(all_archives, ArchiveFile(pargs, tag, target, runs))
               /\ ti' = ti + 1
               /\ ppc' = IF last THEN "built" ELSE "build"
               /\ UNCHANGED presult
          ELSE IF should_continue_on_error
          THEN /\ ti' = ti + 1
               /\ ppc' = IF last THEN "built" ELSE "build"
               /\ UNCHANGED <<all_archives, presult>>
          ELSE /\ PublishReturn(PErr("BuildFailed",
                    IF outcome = "nobins" THEN <<target, "no binaries found">>
                    ELSE <<target>>))
               /\ UNCHANGED <<all_archives, ti>>
    /\ UNCHANGED <<pargs, penv, forge, nextId, runs, tag, release_notes, prelease,
                   ai, found_asset>>
    /\ UNCHANGED <<rvars, ivars, fvars, cvars>>

NothingBuilt_Never(archives) == FALSE

\* run after the loop: all_archives.is_empty()
NothingBuilt(archives) == archives = <<>>

\* run after the loop: no archive is BuildFailed for all targets; else the
\* checksums and the release notes are generated
P_AfterBuilds ==
    /\ ppc = "built"
    /\ IF NothingBuilt(all_archives)
       THEN /\ PublishReturn(PErr("BuildFailed", <<"all targets">>))
            /\ UNCHANGED <<all_archives, release_notes, phist>>
       ELSE /\ IF ~pargs.no_checksum
               THEN /\ all_archives' =
                         Append(all_archives, generate_checksums(all_archives, runs))
                    /\ phist' = [phist EXCEPT !.checksums = TRUE]
               ELSE UNCHANGED <<all_archives, phist>>
            /\ IF ~penv.git
               THEN /\ PublishReturn(PErr("Git", <<>>))
                    /\ UNCHANGED release_notes
               ELSE /\ release_notes' = <<"notes">>
                    /\ ppc' = IF ~pargs.hash THEN "auto_notes" ELSE "release_lookup"
                    /\ UNCHANGED presult
    /\ UNCHANGED <<pargs, penv, forge, nextId, runs, tag, ti, prelease, ai,
                   found_asset>>
    /\ UNCHANGED <<rvars, ivars, fvars, cvars>>

WithAutoNotes_Always(notes, ok) == Append(notes, "auto")

\* run: the notes after the fetch of the forge's auto-generated notes; the
\* section is appended on Ok, a failure is logged and the notes are kept
WithAutoNotes(notes, ok) == IF ok THEN Append(notes, "auto") ELSE notes

\* run: find_previous_tag().ok() turns a failed lookup of the previous tag
\* into None; the forge's auto-generated notes are appended when they can be
\* fetched
P_AutoNotes(prev_ok, ok) ==
    /\ ppc = "auto_notes"
    /\ release_notes' = WithAutoNotes(release_notes, ok)
    /\ phist' = [phist EXCEPT
                    !.auto = IF ok THEN "fetched" ELSE "failed",
                    !.tolerated = @ \cup (IF prev_ok THEN {} ELSE {"previous_tag"})
                                    \cup (IF ok THEN {} ELSE {"auto_notes"})]
    /\ ppc' = "release_lookup"
    /\ UNCHANGED <<pargs, penv, forge, nextId, runs, tag, ti, all_archives, prelease,
                   ai, found_asset, presult>>
    /\ UNCHANGED <<rvars, ivars, fvars, cvars>>

FoundRelease_Updated(f, id, draft, target, notes) ==
    [i \in 1..Len(f) |->
        IF f[i].id = id
        THEN [f[i] EXCEPT !.draft = draft, !.target_commitish = target, !.notes = notes]
        ELSE f[i]]

\* create_release, Ok(release) => Ok(release): the forge after the release
\* was found; no request is made for it
FoundRelease(f, id, draft, target, notes) == f

\* create_release, create: the release the forge makes
CreatedRelease(id, tag_name, draft, target, notes) ==
    [id |-> id, tag |-> tag_name, draft |-> draft, target_commitish |-> target,
     notes |-> notes, assets |-> <<>>]

\* create_release, get_by_tag: Ok reuses the release, any Err leads to create
P_ReleaseLookup(fail) ==
    /\ ppc = "release_lookup"
    /\ LET id == ReleaseIdByTag(forge, tag) IN
       /\ phist' = [phist EXCEPT
                       !.existed = id # NoId,
                       !.meta = IF id = NoId THEN NoMeta
                                ELSE MetaOf(ReleaseById(forge, id)),
                       !.held = IF id = NoId THEN {}
                                ELSE {ReleaseById(forge, id).assets[k].name :
                                        k \in 1..Len(ReleaseById(forge, id).assets)},
                       !.transport = @ \/ fail,
                       !.tolerated = @ \cup (IF fail THEN {"release_lookup"} ELSE {})]
       /\ IF id # NoId /\ ~fail
          THEN /\ forge' = FoundRelease(forge, id, pargs.draft, pargs.hash,
                                         release_notes)
               /\ prelease' = id
               /\ ai' = 1
               /\ ppc' = "asset_exists"
          ELSE /\ ppc' = "release_create"
               /\ UNCHANGED <<forge, prelease, ai>>
    /\ UNCHANGED <<pargs, penv, nextId, runs, tag, ti, all_archives,
                   release_notes, found_asset, presult>>
    /\ UNCHANGED <<rvars, ivars, fvars, cvars>>

\* create_release, create: the forge makes the release unless the request
\* fails, carries no token or names a tag that has a release
P_ReleaseCreate(fail) ==
    /\ ppc = "release_create"
    /\ phist' = [phist EXCEPT !.requests = Append(@, "create"),
                              !.transport = @ \/ fail]
    /\ IF fail \/ ~OctocrabHasToken(pargs, penv) \/ ReleaseIdByTag(forge, tag) # NoId
       THEN /\ PublishReturn(PErr("ReleaseCreation", <<>>))
            /\ UNCHANGED <<forge, nextId, prelease, ai>>
       ELSE /\ forge' = <<CreatedRelease(nextId, tag, pargs.draft, pargs.hash,
                                          release_notes)>> \o forge
            /\ nextId' = nextId + 1
            /\ prelease' = nextId
            /\ ai' = 1
            /\ ppc' = "asset_exists"
            /\ UNCHANGED presult
    /\ UNCHANGED <<pargs, penv, runs, tag, ti, all_archives, release_notes,
                   found_asset>>
    /\ UNCHANGED <<rvars, ivars, fvars, cvars>>

AfterAssetExists_UploadAtOnce(id) == "upload"

\* run's upload loop: an asset found is deleted first, then the file is uploaded
AfterAssetExists(id) == IF id # NoId THEN "delete" ELSE "upload"

\* run's upload loop: asset_exists for the next file
P_AssetExists(fail) ==
    /\ ppc = "asset_exists"
    /\ phist' = [phist EXCEPT !.transport = @ \/ fail]
    /\ IF fail
       THEN /\ PublishReturn(PErr("GitHubApi", <<>>))
            /\ UNCHANGED found_asset
       ELSE LET id == asset_exists(forge, prelease, all_archives[ai].name) IN
            /\ found_asset' = id
            /\ ppc' = AfterAssetExists(id)
            /\ UNCHANGED presult
    /\ UNCHANGED <<pargs, penv, forge, nextId, runs, tag, ti, all_archives,
                   release_notes, prelease, ai>>
    /\ UNCHANGED <<rvars, ivars, fvars, cvars>>

\* run's upload loop: delete_asset of the asset found
P_DeleteAsset(fail) ==
    /\ ppc = "delete"
    /\ IF ~get_token(pargs, penv)
       THEN /\ PublishReturn(PErr("NoToken", <<>>))
            /\ UNCHANGED <<forge, phist>>
       ELSE /\ phist' = [phist EXCEPT !.requests = Append(@, "delete"),
                                      !.transport = @ \/ fail]
            /\ IF fail
               THEN /\ PublishReturn(PErr("DeleteFailed", <<>>))
                    /\ UNCHANGED forge
               ELSE /\ forge' = ForgeDelete(forge, found_asset)
                    /\ ppc' = "upload"
                    /\ UNCHANGED presult
    /\ UNCHANGED <<pargs, penv, nextId, runs, tag, ti, all_archives, release_notes,
                   prelease, ai, found_asset>>
    /\ UNCHANGED <<rvars, ivars, fvars, cvars>>

\* run's upload loop: upload_asset of the file; after the last file the run
\* returns Ok under --skip-publish and runs cargo publish otherwise
P_UploadAsset(fail) ==
    /\ ppc = "upload"
    /\ LET file == all_archives[ai] IN
       IF ~get_token(pargs, penv)
       THEN /\ PublishReturn(PErr("AssetUpload", <<"No GitHub token">>))
            /\ UNCHANGED <<forge, nextId, ai, phist>>
       ELSE IF fail \/ NameTaken(forge, prelease, file.name)
       THEN /\ phist' = [phist EXCEPT !.requests = Append(@, "upload"),
                                      !.transport = @ \/ fail,
                                      !.conflict = @ \/ ~fail]
            /\ PublishReturn(PErr("AssetUpload", <<file.name>>))
            /\ UNCHANGED <<forge, nextId, ai>>
       ELSE /\ phist' = [phist EXCEPT !.requests = Append(@, "upload"),
                                      !.uploaded = Append(@, file.name)]
            /\ forge' = ForgeUpload(forge, prelease, nextId, file)
            /\ nextId' = nextId + 1
            /\ ai' = ai + 1
            /\ IF ai = Len(all_archives) /\ pargs.skip_publish
               THEN PublishReturn(POk)
               ELSE /\ ppc' = IF ai = Len(all_archives) THEN "cargo_publish"
                               ELSE "asset_exists"
                    /\ UNCHANGED presult
    /\ UNCHANGED <<pargs, penv, runs, tag, ti, all_archives, release_notes,
                   prelease, found_asset>>
    /\ UNCHANGED <<rvars, ivars, fvars, cvars>>

\* run_cargo_publish: Err when the command cannot be started; a non-zero
\* exit status is logged as a warning and Ok(()) is returned
P_CargoPublish(outcome) ==
    /\ ppc = "cargo_publish"
    /\ phist' = [phist EXCEPT
                    !.tolerated = @ \cup (IF outcome = "nonzero" THEN {"cargo_publish"}
                                          ELSE {})]
    /\ PublishReturn(IF outcome = "not_started" THEN PErr("Io", <<"cargo publish">>)
                     ELSE POk)
    /\ UNCHANGED <<pargs, penv, forge, nextId, runs, tag, ti, all_archives,
                   release_notes, prelease, ai, found_asset>>
    /\ UNCHANGED <<rvars, ivars, fvars, cvars>>

\* the command is run again for the same repository
P_NewRun ==
    /\ ppc = "done"
    /\ runs < MaxRuns
    /\ runs' = runs + 1
    /\ ppc' = "start"
    /\ tag' = NoName
    /\ ti' = 0
    /\ all_archives' = <<>>
    /\ release_notes' = <<>>
    /\ prelease' = NoId
    /\ ai' = 0
    /\ found_asset' = NoId
    /\ presult' = PNone
    /\ phist' = NoHist
    /\ UNCHANGED <<pargs, penv, forge, nextId>>
    /\ UNCHANGED <<rvars, ivars, fvars, cvars>>

(***************************************************************************)
(* Single calls of the pure functions.                                     *)
(***************************************************************************)

\* no call was made
NoCall == [fn |-> "none"]

\* the call has not returned / returned val
NoRet == [done |-> FALSE]
Ret(val) == [done |-> TRUE, val |-> val]

\* the state of this part outside its own specification
CallIdle ==
    /\ fcall = NoCall
    /\ fret = NoRet

\* GitHubClient::find_asset(release, target, bin_name)
F_find_asset ==
    /\ fcall.fn = "find_asset"
    /\ ~fret.done
    /\ fret' = Ret(find_asset(fcall.release, fcall.target, fcall.bin_name))
    /\ UNCHANGED fcall
    /\ UNCHANGED <<rvars, ivars, pvars, cvars>>

\* Installer::parse_checksum(content, filename): Err when no line matches
F_parse_checksum ==
    /\ fcall.fn = "parse_checksum"
    /\ ~fret.done
    /\ fret' = Ret(parse_checksum(fcall.content, fcall.filename))
    /\ UNCHANGED fcall
    /\ UNCHANGED <<rvars, ivars, pvars, cvars>>

\* utils.rs is_executable (unix): mode & 0o111 != 0
is_executable(mode) ==
    \/ mode % 2 = 1
    \/ (mode \div 8) % 2 = 1
    \/ (mode \div 64) % 2 = 1

\* packager.rs create_zip: the mode every entry is written with, 0o755
ZipUnixPermissions == 493

\* packager.rs create_tar_gz: one entry per file, named by the file's
\* file_name(), with the mode of the file's metadata (append_file)
create_tar_gz(files) ==
    [k \in 1..Len(files) |-> [name |-> files[k].name, mode |-> files[k].mode]]

create_zip_SourceMode(files) ==
    [k \in 1..Len(files) |-> [name |-> files[k].name, mode |-> files[k].mode]]

\* packager.rs create_zip: one entry per file, named by the file's
\* file_name(), with the options' unix_permissions
create_zip(files) ==
    [k \in 1..Len(files) |-> [name |-> files[k].name, mode |-> ZipUnixPermissions]]

\* packager.rs create_archive: the archive in the format asked for
create_archive(files, format) ==
    [format |-> format,
     entries |-> IF format = "tgz" THEN create_tar_gz(files) ELSE create_zip(files)]

\* utils.rs extract_archive into a fresh directory: each entry is written
\* under its name with its mode (tar unpack; extract_zip's set_permissions),
\* a later entry of the same name replacing an earlier one
extract_archive(archive) ==
    LET es == archive.entries
    IN  {[name |-> es[k].name, mode |-> es[k].mode] :
            k \in {i \in 1..Len(es) : \A j \in (i + 1)..Len(es) : es[j].name # es[i].name}}

\* extract_archive(create_archive(files, format))
F_round_trip ==
    /\ fcall.fn = "round_trip"
    /\ ~fret.done
    /\ fret' = Ret(extract_archive(create_archive(fcall.files, fcall.format)))
    /\ UNCHANGED fcall
    /\ UNCHANGED <<rvars, ivars, pvars, cvars>>

\* Installer::install_binaries over the executables find_executables lists
F_install_binaries ==
    /\ fcall.fn = "install_binaries"
    /\ ~fret.done
    /\ fret' = Ret(install_binaries(fcall.args, fcall.exes, fcall.files))
    /\ UNCHANGED fcall
    /\ UNCHANGED <<rvars, ivars, pvars, cvars>>

\* run: the name of the archive of a target, format!("{repo}-{target}-{tag}")
\* with the suffix create_archive appends
archive_name(repo, target, tag_name, format) ==
    repo \o <<"-">> \o target \o <<"-">> \o tag_name
         \o <<IF format = "tgz" THEN ".tar.gz" ELSE ".zip">>

\* find_asset(release, target, None) on a release a publish run filled
F_find_published ==
    /\ fcall.fn = "find_published"
    /\ ~fret.done
    /\ fret' = Ret(find_asset(fcall.release, fcall.target, NoName))
    /\ UNCHANGED fcall
    /\ UNCHANGED <<rvars, ivars, pvars, cvars>>

\* find_asset, then download_asset of the asset selected, then
\* extract_archive's test of the temporary file's name
F_select_download_extract ==
    /\ fcall.fn = "select_download_extract"
    /\ ~fret.done
    /\ LET a == find_asset(fcall.release, fcall.target, NoName)
           t == IF a = NoAsset THEN NoTempFile ELSE TempFileOf(a)
       IN  fret' = Ret([asset |-> a, temp |-> t,
                        supported |-> a # NoAsset /\ CanExtract(t.name)])
    /\ UNCHANGED fcall
    /\ UNCHANGED <<rvars, ivars, pvars, cvars>>

\* generate_release_notes: the per-binary install commands of the notes,
\* cargo ghinstall {owner}/{repo_name}@{tag} --bin {binary_name}
binary_install_commands(repo, tag_name, binaries) ==
    [i \in 1..Len(binaries) |-> [repo |-> repo, tag |-> tag_name, bin |-> binaries[i]]]

\* Installer::run for a command of the notes: find_asset with the command's
\* --bin as filter
F_find_listed_binary ==
    /\ fcall.fn = "find_listed_binary"
    /\ ~fret.done
    /\ fret' = Ret(find_asset(fcall.release, fcall.target, fcall.command.bin))
    /\ UNCHANGED fcall
    /\ UNCHANGED <<rvars, ivars, pvars, cvars>>

\* verify_checksum: the manifest asset it locates on the release
F_locate_manifest ==
    /\ fcall.fn = "locate_manifest"
    /\ ~fret.done
    /\ fret' = Ret(ChecksumAsset(fcall.release))
    /\ UNCHANGED fcall
    /\ UNCHANGED <<rvars, ivars, pvars, cvars>>

(***************************************************************************)
(* Concurrent install runs into one directory: each process is at          *)
(* install_binaries (installer.rs), the file system calls of the processes *)
(* interleave.                                                             *)
(***************************************************************************)

\* the state of this part outside its own specification
ConcurrentIdle ==
    /\ installers = <<>>
    /\ sharedDir = {}

\* the content of a file File::create has just created or truncated
Truncated == <<>>

\* install_binaries: the calls of install_binary it makes, in order
CopyPlan(args, exes) ==
    IF args.bins
    THEN [i \in 1..Len(exes) |-> [source |-> exes[i], name |-> NoName]]
    ELSE IF args.bin # NoName
    THEN LET i == FirstExe(exes, args.bin) IN
         IF i # 0 THEN <<[source |-> exes[i], name |-> args.bin]>> ELSE <<>>
    ELSE <<[source |-> exes[DefaultExe(exes, args.repo)], name |-> args.repo]>>

\* the destination of the copy process p is at
DestOf(p) ==
    LET c == installers[p].copies[installers[p].k]
    IN  binary_name(c.source, c.name)

\* install_binaries up to its first install_binary: find_executables, the
\* checks for no executable and for no match of --bin, create_dir_all
C_FindExecutables(p) ==
    /\ installers[p].pc = "start"
    /\ LET me == installers[p]
           plan == CopyPlan(me.args, me.exes)
       IN  installers' = [installers EXCEPT ![p] =
               IF me.exes = <<>>
               THEN [me EXCEPT !.pc = "done",
                               !.result = IErr("NoExecutablesFound", <<>>)]
               ELSE IF plan = <<>>
               THEN [me EXCEPT !.pc = "done",
                               !.result = IErr("BinaryNotFound",
                                               <<me.args.bin>> \o ExeNames(me.exes))]
               ELSE [me EXCEPT !.pc = "copy", !.copies = plan, !.k = 1]]
    /\ UNCHANGED sharedDir
    /\ UNCHANGED <<rvars, ivars, pvars, fvars>>

\* install_binary, fs::copy: the destination is created, or truncated when
\* a file of that name exists
C_CopyCreate(p) ==
    /\ installers[p].pc = "copy"
    /\ sharedDir' = {f \in sharedDir : f.name # DestOf(p)}
                       \cup {[name |-> DestOf(p), bytes |-> Truncated, exec |-> FALSE]}
    /\ installers' = [installers EXCEPT ![p].pc = "write"]
    /\ UNCHANGED <<rvars, ivars, pvars, fvars>>

\* install_binary, fs::copy: the content of the source is written to the
\* file opened
C_CopyWrite(p) ==
    /\ installers[p].pc = "write"
    /\ sharedDir' = {f \in sharedDir : f.name # DestOf(p)}
                       \cup {[name |-> DestOf(p),
                              bytes |-> installers[p].copies[installers[p].k].source.bytes,
                              exec |-> \E f \in sharedDir : f.name = DestOf(p) /\ f.exec]}
    /\ installers' = [installers EXCEPT ![p].pc = "chmod"]
    /\ UNCHANGED <<rvars, ivars, pvars, fvars>>

\* install_binary, make_executable on the destination path; then the next
\* copy, or Ok(()) after the last
C_MakeExecutable(p) ==
    /\ installers[p].pc = "chmod"
    /\ sharedDir' = {f \in sharedDir : f.name # DestOf(p)}
                       \cup {[f EXCEPT !.exec = TRUE] : f \in {g \in sharedDir : g.name = DestOf(p)}}
    /\ LET me == installers[p] IN
       installers' = [installers EXCEPT ![p] =
           IF me.k < Len(me.copies)
           THEN [me EXCEPT !.k = me.k + 1, !.pc = "copy"]
           ELSE [me EXCEPT !.pc = "done", !.result = IOk]]
    /\ UNCHANGED <<rvars, ivars, pvars, fvars>>

(***************************************************************************)
(* Specifications.                                                         *)
(***************************************************************************)

\* a caller hands with_retry an operation that fails its first fails invocations
R_Begin(fails) ==
    /\ rpc = "idle"
    /\ WithRetryBegin(retry_config, fails, ErrKinds)
    /\ UNCHANGED <<ivars, pvars, fvars, cvars>>

InitRetry ==
    /\ retry_config \in RetryConfigs
    /\ RetryIdle
    /\ ConcurrentIdle
    /\ CallIdle
    /\ InstallIdle
    /\ PublishIdle

NextRetry ==
    \/ \E fails \in 0..(MaxRetries + 2) : R_Begin(fails)
    \/ \E d \in OpDurations : R_AttemptOk(d)
    \/ \E d \in OpDurations, kind \in ErrKinds :
          \E randomized \in RandomizedIntervals(current_interval) :
             R_AttemptFail(d, kind, randomized)
    \/ R_Sleep

SpecRetry == InitRetry /\ [][NextRetry]_vars

\* with_retry runs without interruption: every enabled step is eventually taken
FairSpecRetry == SpecRetry /\ WF_vars(NextRetry)

\* the executables of the archives of the model
ExeSets ==
    {<<>>,
     <<[name |-> <<"tool", "-", "helper">>, bytes |-> "x1"],
       [name |-> <<"tool">>, bytes |-> "x2"]>>,
     <<[name |-> <<"app">>, bytes |-> "x3"], [name |-> <<"app", "ctl">>, bytes |-> "x4"]>>}

\* the archive for the linux target, for the darwin target, and a signature
ArchiveAsset(exes) ==
    [name |-> <<"tool", "-", "linux", ".tar.gz">>, bytes |-> "b1", lines |-> <<>>,
     exes |-> exes]
OtherAsset ==
    [name |-> <<"tool", "-", "darwin", ".tar.gz">>, bytes |-> "b2", lines |-> <<>>,
     exes |-> <<>>]
SigAsset ==
    [name |-> <<"tool", "-", "linux", ".tar.gz", ".sig">>, bytes |-> "s1",
     lines |-> <<>>, exes |-> <<>>]

\* checksum manifests: the right digest (lower case, upper case, after a tab and
\* a path prefix), a wrong digest, and no line for the linux archive
ManifestLines ==
    {<<<<"cd34", " ", " ", "tool", "-", "darwin", ".tar.gz">>,
       <<"ab12", " ", " ", "tool", "-", "linux", ".tar.gz">>>>,
     <<<<"AB12", " ", " ", "tool", "-", "linux", ".tar.gz">>>>,
     <<<<"ab12", "\t", ".", "/", "dist", "/", "tool", "-", "linux", ".tar.gz">>>>,
     <<<<"cd34", " ", " ", "tool", "-", "linux", ".tar.gz">>>>,
     <<<<"CD34", " ", " ", "tool", "-", "linux", ".tar.gz">>>>,
     <<<<"cd34", " ", " ", "tool", "-", "darwin", ".tar.gz">>>>}

ManifestAsset(lines) ==
    [name |-> <<"SHA256SUMS">>, bytes |-> "m1", lines |-> lines, exes |-> <<>>]

\* the releases the forge may hold for the tag
Releases ==
    {[exists |-> TRUE, tag |-> <<"v1">>, assets |-> front \o manifest \o sig] :
        front \in {<<>>, <<OtherAsset>>} \cup {<<OtherAsset, ArchiveAsset(e)>> : e \in ExeSets},
        manifest \in {<<>>} \cup {<<ManifestAsset(l)>> : l \in ManifestLines},
        sig \in {<<>>, <<SigAsset>>}}

NoRelease == [exists |-> FALSE, tag |-> <<"v1">>, assets |-> <<>>]

\* the arguments of an install run
InstallArgs ==
    {[repo |-> <<"tool">>, tag |-> <<"v1">>, target |-> <<"linux">>,
      bin |-> m.bin, bins |-> m.bins, no_fallback |-> nf, skip_checksum |-> sc,
      verify_signature |-> vs, no_retry |-> nr, max_retries |-> InstallMaxRetries] :
        m \in {[bin |-> NoName, bins |-> FALSE], [bin |-> NoName, bins |-> TRUE],
               [bin |-> <<"tool">>, bins |-> FALSE],
               [bin |-> <<"nope">>, bins |-> FALSE]},
        nf \in BOOLEAN, sc \in BOOLEAN, vs \in BOOLEAN, nr \in BOOLEAN}

\* the sections the configuration file may hold for the repository
RepoConfigs ==
    {NoRepoConfig, [present |-> TRUE, bin |-> NoName, verify_signature |-> TRUE]}

InitInstall ==
    /\ iconfig \in RepoConfigs
    /\ \E args \in InstallArgs : iargs = merge_with_args(args, iconfig)
    /\ irelease \in Releases \cup {NoRelease}
    /\ retry_config = InstallerRetryConfig(iargs)
    /\ RetryIdle
    /\ ConcurrentIdle
    /\ CallIdle
    /\ ipc = "start"
    /\ release = NoRelease
    /\ asset = NoAsset
    /\ temp_file = NoTempFile
    /\ checksum_file = NoAsset
    /\ extracted = FALSE
    /\ iresult = INone
    /\ installDir = {}
    /\ dirCreated = FALSE
    /\ fallbackInvoked = FALSE
    /\ downloads = <<>>
    /\ PublishIdle

\* the number of failures before success of a request of the run
InstallFailures == {0, 1, AlwaysFails}

NextInstall ==
    \/ \E fails \in InstallFailures : I_Run(fails)
    \/ I_GetReleaseErr
    \/ \E ok \in BOOLEAN : I_Fallback(ok)
    \/ \E fails \in InstallFailures : I_GetReleaseOk(fails)
    \/ I_DownloadErr
    \/ \E fails \in InstallFailures : I_DownloadOk(fails)
    \/ \E fails \in InstallFailures : I_ChecksumDownloaded(fails)
    \/ I_SignatureDownloaded
    \/ I_ExtractInstall
    \/ \E d \in OpDurations : R_AttemptOk(d)
    \/ \E d \in OpDurations, kind \in ErrKinds :
          \E randomized \in RandomizedIntervals(current_interval) :
             R_AttemptFail(d, kind, randomized)
    \/ R_Sleep

SpecInstall == InitInstall /\ [][NextInstall]_vars

\* the arguments of a publish run
PublishArgs ==
    {[repo |-> "tool", tag |-> t, targets |-> ts, format |-> "tgz", draft |-> d,
      no_checksum |-> nc, hash |-> h, github_token |-> tok, skip_publish |-> sp] :
        d \in BOOLEAN, sp \in BOOLEAN,
        t \in {NoName, <<"v1">>},
        ts \in {<<"linux", "darwin">>, <<"linux">>, <<>>},
        nc \in BOOLEAN, h \in BOOLEAN, tok \in BOOLEAN}

\* the environment of a publish run; clap fills --github-token from GITHUB_TOKEN
PublishEnvs(args) ==
    {[git |-> g, head_tag |-> ht, env_token |-> et] :
        g \in BOOLEAN, ht \in {NoName, <<"v1">>}, et \in {e \in BOOLEAN : e => args.github_token}}

\* the names a run over both targets with tag v1 uploads
V1Names ==
    <<<<"tool", "-", "linux", "-", "v1", ".tar.gz">>,
      <<"tool", "-", "darwin", "-", "v1", ".tar.gz">>,
      <<"SHA256SUMS">>>>

\* the release for v1 an earlier run left: without assets, or with all of them
V1Release(withAssets) ==
    [id |-> 1, tag |-> <<"v1">>, draft |-> FALSE, target_commitish |-> FALSE,
     notes |-> <<"old">>,
     assets |-> IF withAssets
                THEN [k \in 1..3 |-> [id |-> 1 + k, name |-> V1Names[k], bytes |-> 0]]
                ELSE <<>>]

\* n newer releases with other tags
OtherReleases(n) ==
    [i \in 1..n |-> [id |-> 10 + i, tag |-> <<"o", i>>, draft |-> FALSE,
                     target_commitish |-> FALSE, notes |-> <<"old">>,
                     assets |-> <<>>]]

\* the releases the repository may hold before the first run
Forges ==
    {OtherReleases(n) \o v : n \in 0..MaxOtherReleases,
                             v \in {<<>>, <<V1Release(FALSE)>>, <<V1Release(TRUE)>>}}

InitPublish ==
    /\ pargs \in PublishArgs
    /\ penv \in PublishEnvs(pargs)
    /\ forge \in Forges
    /\ nextId = 20
    /\ runs = 1
    /\ ppc = "start"
    /\ PublishLocals
    /\ retry_config = NoRetryConfig
    /\ RetryIdle
    /\ ConcurrentIdle
    /\ CallIdle
    /\ InstallIdle

NextPublish ==
    \/ P_Start
    \/ \E outcome \in {"ok", "fail", "nobins"} : P_Build(outcome)
    \/ P_AfterBuilds
    \/ \E prev_ok, ok \in BOOLEAN : P_AutoNotes(prev_ok, ok)
    \/ \E fail \in BOOLEAN : P_ReleaseLookup(fail)
    \/ \E fail \in BOOLEAN : P_ReleaseCreate(fail)
    \/ \E fail \in BOOLEAN : P_AssetExists(fail)
    \/ \E fail \in BOOLEAN : P_DeleteAsset(fail)
    \/ \E fail \in BOOLEAN : P_UploadAsset(fail)
    \/ \E outcome \in {"ok", "nonzero", "not_started"} : P_CargoPublish(outcome)
    \/ P_NewRun

SpecPublish == InitPublish /\ [][NextPublish]_vars

\* asset names: two archives for linux, a package and a signature that are no
\* archives, an archive of another target
MatchNames ==
    {<<"tool", "-", "linux", ".tar.gz">>,
     <<"helper", "-", "linux", ".zip">>,
     <<"tool", "-", "linux", ".deb">>,
     <<"tool", "-", "linux", ".tar.gz", ".sig">>,
     <<"tool", "-", "darwin", ".tar.gz">>}

\* an asset of that name
NamedAsset(name) == [name |-> name, bytes |-> "b1", lines |-> <<>>, exes |-> <<>>]

\* sequences over S of length at most n
SeqsUpTo(S, n) == UNION {[1..k -> S] : k \in 0..n}

\* the calls of find_asset
FindAssetCalls ==
    {[fn |-> "find_asset",
      release |-> [exists |-> TRUE, tag |-> <<"v1">>,
                   assets |-> [i \in 1..Len(names) |-> NamedAsset(names[i])]],
      target |-> t, bin_name |-> b] :
        names \in SeqsUpTo(MatchNames, MaxAssets),
        t \in {<<"linux">>, <<"windows">>},
        b \in {NoName, <<"helper">>}}

\* recorded names of manifest lines: the file, the file under a directory,
\* other files whose names end with the file's name, another file
RecordedNames ==
    {<<"file", ".tar.gz">>,
     <<".", "/", "dist", "/", "file", ".tar.gz">>,
     <<"dist", "/", "file", ".tar.gz">>,
     <<"x", "file", ".tar.gz">>,
     <<"dist", "/", "x", "file", ".tar.gz">>,
     <<"other", ".zip">>}

\* the separators between digest and name
Separators == {<<" ", " ">>, <<" ">>, <<"\t">>}

\* manifest lines: a digest, a separator, a recorded name; a digest alone; an
\* empty line.  rec is the recorded name, NoName when the line has none.
ManifestEntries ==
    {[line |-> <<d>> \o sep \o n, digest |-> d, rec |-> n] :
        d \in {"ab12", "cd34"}, sep \in Separators, n \in RecordedNames}
    \cup {[line |-> <<"ab12">>, digest |-> "ab12", rec |-> NoName],
          [line |-> <<>>, digest |-> "none", rec |-> NoName]}

\* the calls of parse_checksum
ParseChecksumCalls ==
    {[fn |-> "parse_checksum",
      entries |-> es,
      content |-> [i \in 1..Len(es) |-> es[i].line],
      filename |-> f] :
        es \in SeqsUpTo(ManifestEntries, MaxLines),
        f \in {<<"file", ".tar.gz">>, <<"other", ".zip">>, <<"missing", ".tgz">>}}

\* asset names of releases that hold manifests
ManifestListNames ==
    {<<"SHA256SUMS">>, <<"checksums.txt">>, <<"sha256sums.txt">>,
     <<"tool", "-", "linux", ".tar.gz">>}

\* the releases verify_checksum looks for a manifest on: no name twice
LocateManifestCalls ==
    {[fn |-> "locate_manifest",
      release |-> [exists |-> TRUE, tag |-> <<"v1">>,
                   assets |-> [i \in 1..Len(names) |-> NamedAsset(names[i])]]] :
        names \in {ns \in SeqsUpTo(ManifestListNames, MaxAssets) :
                      \A i, j \in 1..Len(ns) : ns[i] = ns[j] => i = j}}

\* files to package: executables and plain files, modes 0o755, 0o700, 0o644, 0o600
SourceFiles ==
    {[dir |-> d, name |-> n, mode |-> m] :
        d \in {<<"target", "/", "release">>, <<"docs">>},
        n \in {<<"tool">>, <<"helper">>, <<"README">>},
        m \in {493, 448, 420, 384}}

\* the calls of the round trip: a non-empty list of files, no file name twice
RoundTripCalls ==
    {[fn |-> "round_trip", files |-> fs, format |-> f] :
        fs \in {s \in SeqsUpTo(SourceFiles, MaxFiles) :
                  /\ s # <<>>
                  /\ \A i, j \in 1..Len(s) : s[i].name = s[j].name => i = j},
        f \in {"tgz", "zip"}}

\* executables of an extracted tree, at its top and in a directory; the
\* content of each is its own
ExtractedExes ==
    {[dir |-> d, name |-> n, bytes |-> <<d, n>>] :
        d \in {<<>>, <<"bin">>},
        n \in {<<"tool">>, <<"tool", ".sh">>, <<"helper">>, <<"tool", "-", "helper">>}}

\* the calls of install_binaries for repository tool: the executables in the
\* order find_executables lists them, none twice, into an empty directory or
\* one that holds a file named tool
InstallBinariesCalls ==
    {[fn |-> "install_binaries",
      args |-> [repo |-> <<"tool">>, bin |-> m.bin, bins |-> m.bins],
      exes |-> es, files |-> fs] :
        m \in {[bin |-> NoName, bins |-> FALSE], [bin |-> NoName, bins |-> TRUE],
               [bin |-> <<"helper">>, bins |-> FALSE]},
        es \in {s \in SeqsUpTo(ExtractedExes, MaxExes) :
                  \A i, j \in 1..Len(s) : s[i] = s[j] => i = j},
        fs \in {{}, {[name |-> <<"tool">>, bytes |-> <<<<"old">>, <<"tool">>>>]}}}

\* target triples published: one is a part of another
PublishedTargets == {<<"linux">>, <<"linux", "-", "musl">>, <<"darwin">>}

\* the releases of one publish run over distinct targets, the manifest
\* uploaded last, listed by the forge in upload order or in reverse; and a
\* target of the run to look for
FindPublishedCalls ==
    UNION {
        {[fn |-> "find_published", repo |-> r, tag |-> <<"v1">>, format |-> f,
          target |-> ts[k],
          release |-> [exists |-> TRUE, tag |-> <<"v1">>,
                       assets |->
                         LET up == [i \in 1..Len(ts) |->
                                       NamedAsset(archive_name(r, ts[i], <<"v1">>, f))]
                                   \o <<NamedAsset(<<"SHA256SUMS">>)>>
                         IN  IF rev THEN [i \in 1..Len(up) |-> up[Len(up) + 1 - i]]
                             ELSE up]] :
            r \in {<<"tool">>, <<"darwin", "tool">>},
            f \in {"tgz", "zip"},
            rev \in BOOLEAN,
            k \in 1..Len(ts)} :
        ts \in {s \in SeqsUpTo(PublishedTargets, MaxTargets) :
                  \A i, j \in 1..Len(s) : s[i] = s[j] => i = j}}

\* suffixes of asset names: the archive suffixes, the same in upper case or
\* followed by a further extension, and suffixes of files that are no archives
AssetSuffixes ==
    ArchiveSuffixes
    \cup {<<".ZIP">>, <<".TAR.GZ">>, <<".tar">>, <<".gz">>, <<".deb">>, <<>>,
          <<".tar.gz", ".sig">>, <<".zip", ".sha256">>, <<".tar", ".zip">>}

\* releases of up to MaxAssets assets for linux, one per suffix
SuffixCalls ==
    {[fn |-> "select_download_extract", target |-> <<"linux">>,
      release |-> [exists |-> TRUE, tag |-> <<"v1">>,
                   assets |-> [i \in 1..Len(ss) |->
                                  NamedAsset(<<"tool", "-", "linux">> \o ss[i])]]] :
        ss \in SeqsUpTo(AssetSuffixes, MaxSuffixAssets)}

\* the binaries get_binary_info finds: the package's own, named like the
\* repository, and binaries of workspace members
ListedBinaries == <<<<"tool">>, <<"tool", "ctl">>, <<"helper">>>>

\* a command of the notes of a publish run, run for a published target
\* against the release of that run
ListedBinaryCalls ==
    {[fn |-> "find_listed_binary", release |-> c.release, target |-> c.target,
      command |-> binary_install_commands(c.repo, c.tag, ListedBinaries)[i]] :
        c \in FindPublishedCalls, i \in 1..Len(ListedBinaries)}

InitMatch ==
    /\ fcall \in FindAssetCalls \cup ParseChecksumCalls \cup LocateManifestCalls
                \cup ListedBinaryCalls
                \cup RoundTripCalls \cup InstallBinariesCalls \cup FindPublishedCalls
                \cup SuffixCalls
    /\ fret = NoRet
    /\ retry_config = NoRetryConfig
    /\ RetryIdle
    /\ ConcurrentIdle
    /\ InstallIdle
    /\ PublishIdle

NextMatch ==
    \/ F_round_trip
    \/ F_find_listed_binary
    \/ F_select_download_extract
    \/ F_find_published
    \/ F_install_binaries
    \/ F_find_asset
    \/ F_parse_checksum
    \/ F_locate_manifest

SpecMatch == InitMatch /\ [][NextMatch]_vars

\* the repositories installed from and the executables their archives hold
Repositories ==
    {[owner |-> "alice", repo |-> <<"tool">>,
      exes |-> <<[name |-> <<"cli">>, bytes |-> <<"alice", "cli">>],
                 [name |-> <<"helper">>, bytes |-> <<"alice", "helper">>]>>],
     [owner |-> "bob", repo |-> <<"tool">>,
      exes |-> <<[name |-> <<"tool">>, bytes |-> <<"bob", "tool">>]>>],
     [owner |-> "bob", repo |-> <<"app">>,
      exes |-> <<[name |-> <<"cli">>, bytes |-> <<"bob", "cli">>]>>],
     [owner |-> "carol", repo |-> <<"empty">>, exes |-> <<>>]}

\* the install runs of the processes: different repositories, each in
\* default mode, with --bins or with --bin helper
ConcurrentRuns ==
    {r \in [1..MaxInstallers ->
               {[owner |-> x.owner, exes |-> x.exes,
                 args |-> [repo |-> x.repo, bin |-> m.bin, bins |-> m.bins],
                 copies |-> <<>>, k |-> 0, pc |-> "start", result |-> INone] :
                    x \in Repositories,
                    m \in {[bin |-> NoName, bins |-> FALSE], [bin |-> NoName, bins |-> TRUE],
                           [bin |-> <<"helper">>, bins |-> FALSE]}}] :
        \A p, q \in 1..MaxInstallers :
            p # q => <<r[p].owner, r[p].args.repo>> # <<r[q].owner, r[q].args.repo>>}

InitConcurrent ==
    /\ installers \in ConcurrentRuns
    /\ sharedDir = {}
    /\ retry_config = NoRetryConfig
    /\ RetryIdle
    /\ CallIdle
    /\ InstallIdle
    /\ PublishIdle

NextConcurrent ==
    \E p \in 1..MaxInstallers :
        \/ C_FindExecutables(p)
        \/ C_CopyCreate(p)
        \/ C_CopyWrite(p)
        \/ C_MakeExecutable(p)

SpecConcurrent == InitConcurrent /\ [][NextConcurrent]_vars

(***************************************************************************)
(* Claims about with_retry, checked under SpecRetry / FairSpecRetry.       *)
(***************************************************************************)

\* C1: an operation that fails k times and then succeeds, with k <= max_retries
\* and the backoff not having reported the deadline as exhausted, makes
\* with_retry return that success after exactly k+1 invocations; after the
\* successful attempt the operation is never invoked again.
C1_SuccessAfterKFailures ==
    /\ [](rpc = "done" /\ willFail <= retry_config.max_retries /\ ~gaveUp
            => rresult = ROk /\ attempt = willFail + 1)
    /\ [][rresult = ROk => attempt' = attempt]_vars

C1_Witness ==
    /\ rpc = "done"
    /\ willFail = 2
    /\ retry_config.max_retries = 2
    /\ rresult = ROk
    /\ attempt = 3

\* C2: with_retry invokes the operation at least once and at most
\* max_retries + 1 times and then returns; when every attempt fails and the
\* backoff did not give up on the deadline it makes exactly max_retries + 1
\* invocations and returns the error of the last one; a max_retries = 0 policy
\* (the --no-retry configuration included) makes exactly one attempt.
C2_AttemptsBounded ==
    /\ [](attempt <= retry_config.max_retries + 1)
    /\ [](rpc = "done" => attempt >= 1)
    /\ [](rpc = "done" /\ rresult.status = "err" /\ ~gaveUp
            => attempt = retry_config.max_retries + 1 /\ rresult = RErr(lastErr))
    /\ [](rpc = "done" /\ retry_config.max_retries = 0 => attempt = 1)
    /\ (rpc = "call" ~> rpc = "done")

C2_Witness ==
    /\ rpc = "done"
    /\ retry_config = NoRetryConfig
    /\ rresult.status = "err"
    /\ attempt = 1

\* C3 (as claimed): once an attempt has failed with a terminal failure (HTTP 4xx
\* other than 429) with_retry has returned that failure: no delay is scheduled
\* and the operation is not invoked again.
C3_TerminalNotRetried ==
    lastErr \in TerminalKinds => (rpc = "done" /\ rresult = RErr(lastErr))

\* C4: once the time elapsed since the first attempt exceeds max_elapsed_time
\* no further attempt is started: with_retry has returned, and when the last
\* attempt failed it returned that attempt's error, even if fewer than
\* max_retries retries were made.
C4_DeadlineStopsRetries ==
    (/\ retry_config.max_elapsed_time # NoDeadline
     /\ attempt >= 1
     /\ elapsed > retry_config.max_elapsed_time)
        => (rpc = "done" /\ (rresult = ROk \/ rresult = RErr(lastErr)))

C4_Witness ==
    /\ rpc = "done"
    /\ gaveUp
    /\ retry_config.max_elapsed_time # NoDeadline
    /\ elapsed > retry_config.max_elapsed_time
    /\ attempt <= retry_config.max_retries
    /\ rresult = RErr(lastErr)

(***************************************************************************)
(* Claims about single calls, checked under SpecMatch.                     *)
(***************************************************************************)

\* the three conditions of the asset matcher on a name
Qualifies(name, target, bin_name) ==
    /\ Contains(name, target)
    /\ \/ EndsWith(name, <<".tar.gz">>) \/ EndsWith(name, <<".tgz">>)
       \/ EndsWith(name, <<".zip">>) \/ EndsWith(name, <<".tar.xz">>)
       \/ EndsWith(name, <<".tar.bz2">>)
    /\ bin_name # NoName => Contains(name, bin_name)

\* C11: find_asset returns the first asset in listed order whose name
\* contains the target, ends with an archive suffix and contains bin_name
\* when one is given; it returns None exactly when no asset qualifies.
C11_FindAssetFirstMatch ==
    fcall.fn = "find_asset" /\ fret.done =>
        LET assets == fcall.release.assets
            q == {i \in 1..Len(assets) :
                    Qualifies(assets[i].name, fcall.target, fcall.bin_name)}
        IN  /\ (fret.val = NoAsset) <=> (q = {})
            /\ q # {} => \E i \in q : /\ fret.val = assets[i]
                                      /\ \A j \in q : i <= j

\* two assets qualify for the target, the filter selects the second; a
\* non-archive that contains the target is listed first
C11_Witness ==
    /\ fcall.fn = "find_asset" /\ fret.done
    /\ fcall.bin_name = <<"helper">>
    /\ Len(fcall.release.assets) = 3
    /\ fcall.release.assets[1].name = <<"tool", "-", "linux", ".deb">>
    /\ fcall.release.assets[2].name = <<"tool", "-", "linux", ".tar.gz">>
    /\ fret.val = fcall.release.assets[3]
    /\ fret.val.name = <<"helper", "-", "linux", ".zip">>

\* the name left after everything up to and including the last path
\* separator is stripped
BaseName(name) ==
    LET seps == {i \in 1..Len(name) : name[i] = "/"}
    IN  IF seps = {} THEN name
        ELSE SubSeq(name, (CHOOSE i \in seps : \A j \in seps : j <= i) + 1, Len(name))

\* the line records a digest for the queried name
LineMatches(entry, filename) ==
    entry.rec # NoName /\ (entry.rec = filename \/ BaseName(entry.rec) = filename)

\* C14: a manifest line matches the queried file name if and only if its
\* recorded name equals the queried name or equals it after the directories
\* are stripped, whatever whitespace separates digest and name; the lookup
\* returns the digest of the first matching line and an error when no line
\* matches.  A recorded base name that only ends with the queried name does
\* not match.
C14_ManifestLineMatching ==
    fcall.fn = "parse_checksum" /\ fret.done =>
        LET m == {i \in 1..Len(fcall.entries) :
                    LineMatches(fcall.entries[i], fcall.filename)}
        IN  /\ (fret.val = NoChecksum) <=> (m = {})
            /\ m # {} => \E i \in m : /\ fret.val = <<fcall.entries[i].digest>>
                                      /\ \A j \in m : i <= j

\* a line for xfile.tar.gz is passed over, the tab-separated line under a
\* directory is taken
C14_Witness ==
    /\ fcall.fn = "parse_checksum" /\ fret.done
    /\ fcall.filename = <<"file", ".tar.gz">>
    /\ fcall.content = << <<"ab12", " ", " ", "x", "file", ".tar.gz">>,
                          <<"cd34", "\t", ".", "/", "dist", "/", "file", ".tar.gz">> >>
    /\ fret.val = <<"cd34">>


\* the conventional manifest names, highest priority first
ManifestPriority == <<<<"SHA256SUMS">>, <<"checksums.txt">>, <<"sha256sums.txt">>>>

\* the manifest names among the release's asset names
ManifestsPresent(rel) ==
    {k \in 1..Len(ManifestPriority) :
        \E i \in 1..Len(rel.assets) : rel.assets[i].name = ManifestPriority[k]}

\* C15: when a release holds several of the conventional manifest assets the
\* one used is chosen by name priority, SHA256SUMS before checksums.txt
\* before sha256sums.txt, whatever the order of the assets on the release.
C15_ManifestByNamePriority ==
    fcall.fn = "locate_manifest" /\ fret.done =>
        LET present == ManifestsPresent(fcall.release)
        IN  IF present = {} THEN fret.val = NoAsset
            ELSE fret.val.name
                   = ManifestPriority[CHOOSE k \in present : \A l \in present : k <= l]


(***************************************************************************)
(* Claims about the install run, checked under SpecInstall.                *)
(***************************************************************************)

\* get_release of the run has failed / has succeeded
GetReleaseFailed == ipc \in {"fallback", "done"} /\ ~release.exists
GetReleaseSucceeded == release.exists

\* C8: the source-build fallback is invoked exactly when get_release fails and
\* no_fallback = false; the run then downloads nothing and installs nothing
\* itself and its result is the fallback's. With no_fallback = true the
\* get_release error is returned and the fallback is not invoked; it is never
\* invoked after get_release succeeded.
C8_FallbackOnlyOnGetReleaseFailure ==
    /\ fallbackInvoked <=> (GetReleaseFailed /\ ~iargs.no_fallback)
    /\ fallbackInvoked =>
          /\ downloads = <<>>
          /\ installDir = {} /\ ~dirCreated /\ ~extracted
          /\ ipc = "done" => iresult \in {IOk, IErr("Installation", <<>>)}
    /\ (ipc = "done" /\ GetReleaseFailed /\ iargs.no_fallback) =>
          iresult = IErr("ReleaseNotFound", <<iargs.tag>>)
    /\ GetReleaseSucceeded => ~fallbackInvoked

C8_Witness ==
    /\ ipc = "done"
    /\ fallbackInvoked
    /\ irelease.exists
    /\ iresult = IErr("Installation", <<>>)

\* the release holds an asset with one of the conventional manifest names
HasManifest(rel) ==
    \E i \in 1..Len(rel.assets) : rel.assets[i].name \in ChecksumNames

\* C9: an install run with skip_checksum = false against a release without a
\* checksum manifest asset, once its asset is downloaded, ends with
\* ChecksumFileNotFound; the run writes no file to the install directory.
C9_MissingManifestIsTerminal ==
    (~iargs.skip_checksum /\ irelease.exists /\ ~HasManifest(irelease)) =>
        /\ installDir = {} /\ ~dirCreated /\ ~extracted
        /\ temp_file # NoTempFile =>
              (ipc = "done" /\ iresult = IErr("ChecksumFileNotFound", <<>>))

C9_Witness ==
    /\ ~iargs.skip_checksum
    /\ irelease.exists
    /\ ~HasManifest(irelease)
    /\ temp_file # NoTempFile
    /\ iresult = IErr("ChecksumFileNotFound", <<>>)

\* digests that are equal up to letter case
DigestClasses == {{"ab12", "AB12", "Ab12"}, {"cd34", "CD34"}, {"ef56", "EF56"}}
SameDigest(a, b) == \E cls \in DigestClasses : a \in cls /\ b \in cls

\* C10: when the manifest was downloaded and records a digest for the asset,
\* a recorded digest that differs from the computed one other than by letter
\* case ends the run with a checksum-mismatch error carrying the expected and
\* the actual digest, nothing being extracted or written to the install
\* directory; digests differing only in letter case are accepted as equal.
C10_ChecksumMismatchIsTerminal ==
    (checksum_file # NoAsset) =>
        LET expected == parse_checksum(checksum_file.lines, asset.name)
            actual == calculate_sha256(temp_file.bytes)
        IN  expected # NoChecksum =>
               IF SameDigest(expected[1], actual)
               THEN iresult.err # "ChecksumVerification"
               ELSE /\ ipc = "done"
                    /\ iresult = IErr("ChecksumVerification",
                                      <<asset.name, expected, <<actual>>>>)
                    /\ installDir = {} /\ ~dirCreated /\ ~extracted

C10_Witness ==
    /\ ipc = "done"
    /\ iresult = IErr("ChecksumVerification",
                      <<asset.name, <<"CD34">>, <<"ab12">>>>)

\* no asset of the release qualifies for the run's target and binary filter
NoQualifyingAsset ==
    \A i \in 1..Len(irelease.assets) :
        ~Qualifies(irelease.assets[i].name, iargs.target, iargs.bin)

\* C12: when get_release succeeded and find_asset returns no asset the run
\* ends with AssetNotFound carrying the target, the release tag and the names
\* of all assets of the release, or the 'no assets' marker when it has none;
\* nothing is downloaded and nothing is written to the install directory.
C12_AssetNotFoundIsTerminal ==
    GetReleaseSucceeded /\ NoQualifyingAsset =>
        /\ ipc = "done"
        /\ iresult.err = "AssetNotFound"
        /\ iresult.info[1] = iargs.target
        /\ iresult.info[2] = irelease.tag
        /\ IF irelease.assets = <<>>
           THEN SubSeq(iresult.info, 3, Len(iresult.info)) = <<<<"No assets available">>>>
           ELSE SubSeq(iresult.info, 3, Len(iresult.info))
                   = [i \in 1..Len(irelease.assets) |-> irelease.assets[i].name]
        /\ downloads = <<>>
        /\ asset = NoAsset /\ temp_file = NoTempFile
        /\ installDir = {} /\ ~dirCreated /\ ~extracted

\* the release holds the archive of another target and a signature only
C12_Witness ==
    /\ ipc = "done"
    /\ release.exists
    /\ Len(irelease.assets) = 2
    /\ iresult = IErr("AssetNotFound",
                      <<iargs.target, <<"v1">>, OtherAsset.name, SigAsset.name>>)
    /\ downloads = <<>>


\* C13: in explicit-binary mode, when the archive was extracted and none of
\* the executables found in it has a file name containing the requested
\* name, the run ends with BinaryNotFound listing the names of all the
\* executables found, and no executable is copied to the install directory.
C13_BinaryNotFoundListsExecutables ==
    (/\ extracted
     /\ ~iargs.bins /\ iargs.bin # NoName
     /\ asset.exes # <<>>
     /\ \A i \in 1..Len(asset.exes) : ~Contains(asset.exes[i].name, iargs.bin))
        => /\ ipc = "done"
           /\ iresult.err = "BinaryNotFound"
           /\ iresult.info
                = <<iargs.bin>> \o [i \in 1..Len(asset.exes) |-> asset.exes[i].name]
           /\ installDir = {}

\* --bin tool against an archive holding app and appctl
C13_Witness ==
    /\ ipc = "done"
    /\ extracted
    /\ iargs.bin = <<"tool">> /\ ~iargs.bins
    /\ iresult = IErr("BinaryNotFound", <<<<"tool">>, <<"app">>, <<"app", "ctl">>>>)
    /\ installDir = {}


\* signature verification was requested, by the flag or by the repository's
\* configuration
SignatureRequested ==
    iargs.verify_signature \/ (iconfig.present /\ iconfig.verify_signature)

\* the release holds no signature asset for the name
NoSignatureFor(name) ==
    \A i \in 1..Len(irelease.assets) :
        /\ irelease.assets[i].name # name \o <<".sig">>
        /\ irelease.assets[i].name # name \o <<".asc">>

\* the run has downloaded its asset and the checksum step let it pass
ChecksumStepPassed ==
    /\ temp_file # NoTempFile
    /\ \/ iargs.skip_checksum
       \/ /\ checksum_file # NoAsset
          /\ VerifyDownloaded(checksum_file, asset, temp_file) = IOk

\* C16: when signature verification is requested and the release holds
\* neither <asset>.sig nor <asset>.asc for the selected asset, the run ends
\* at the signature step with SignatureVerification, before extraction and
\* without writing to the install directory.
C16_MissingSignatureIsTerminal ==
    (SignatureRequested /\ asset # NoAsset /\ NoSignatureFor(asset.name)) =>
        /\ ~extracted /\ installDir = {} /\ ~dirCreated
        /\ ChecksumStepPassed =>
              (ipc = "done" /\ iresult = IErr("SignatureVerification", <<asset.name>>))

\* verification requested by the repository's configuration only
C16_Witness ==
    /\ ipc = "done"
    /\ iconfig.present /\ iconfig.verify_signature
    /\ ~iargs.skip_checksum /\ checksum_file # NoAsset
    /\ NoSignatureFor(asset.name)
    /\ iresult = IErr("SignatureVerification", <<asset.name>>)


\* the run downloaded a signature asset for its asset
SignatureDownloaded ==
    \E i \in 1..Len(downloads) :
        downloads[i] \in {asset.name \o <<".sig">>, asset.name \o <<".asc">>}

\* C17: when signature verification is requested and a signature asset is
\* present, a run that performed no cryptographic check does not report the
\* result of a successful verification: it does not end with plain success.
\* (No step of the run checks a signature.)
C17_UncheckedSignatureNotSuccess ==
    (SignatureRequested /\ SignatureDownloaded /\ ipc = "done") => iresult # IOk


(***************************************************************************)
(* Claims about the publish run, checked under SpecPublish.                *)
(***************************************************************************)

\* the forge holds at most one release with each tag
TagsUnique ==
    \A i, j \in 1..Len(forge) : forge[i].tag = forge[j].tag => i = j

\* C5: after any sequence of publish runs the forge holds at most one
\* release with the tag, and a run whose tag had a release when it was looked
\* up issues no create-release request, whatever the outcome of the lookup.
C5_ExistingReleaseReused ==
    /\ TagsUnique
    /\ phist.existed => \A k \in 1..Len(phist.requests) : phist.requests[k] # "create"

\* the names of the files the run uploads
UploadNames == {all_archives[k].name : k \in 1..Len(all_archives)}

\* the run went through its upload loop undisturbed: it had a release in
\* hand, a token for delete and upload, and no request failed in transport
UploadsUndisturbed ==
    /\ ppc = "done"
    /\ prelease # NoId
    /\ get_token(pargs, penv)
    /\ ~phist.transport

\* C6: a publish run against a release that already holds assets with the
\* names of the files it uploads ends without an upload rejected for a name
\* conflict and with exactly one asset per name, the file of this run.
C6_AssetsReplaced ==
    UploadsUndisturbed /\ phist.existed /\ UploadNames \subseteq phist.held
        => /\ presult = POk
           /\ ~phist.conflict
           /\ LET assets == ReleaseById(forge, prelease).assets IN
              \A n \in UploadNames :
                  /\ Cardinality({k \in 1..Len(assets) : assets[k].name = n}) = 1
                  /\ \A k \in 1..Len(assets) :
                         assets[k].name = n => assets[k].bytes = runs

\* C7: when the build of a target fails the run is over with that target's
\* BuildFailed error; the failed target is the last one built, no checksum
\* manifest was generated and no mutating forge request was issued.
C7_BuildFailureAborts ==
    phist.failed # <<>>
        => /\ ppc = "done"
           /\ presult.status = "err"
           /\ presult.err = "BuildFailed"
           /\ presult.info[1] = phist.failed[1]
           /\ Len(phist.failed) = 1
           /\ phist.built[Len(phist.built)] = phist.failed[1]
           /\ all_archives = [k \in 1..(Len(phist.built) - 1) |->
                                 ArchiveFile(pargs, tag, phist.built[k], runs)]
           /\ ~phist.checksums
           /\ phist.requests = <<>>

\* the first target is built, the second fails, the third step never happens
C7_Witness ==
    /\ ppc = "done"
    /\ phist.failed = <<"darwin">>
    /\ phist.built = <<"linux", "darwin">>
    /\ presult = PErr("BuildFailed", <<"darwin">>)
    /\ phist.requests = <<>>

\* C18: when a release exists for the tag, its draft flag, target commit and
\* notes stay what they were when the run looked it up, whatever the run
\* supplied; the run changes nothing of it but its asset list.
C18_ExistingMetadataUnchanged ==
    phist.existed =>
        /\ ReleaseIdByTag(forge, tag) # NoId
        /\ MetaOf(ReleaseById(forge, ReleaseIdByTag(forge, tag))) = phist.meta

\* a run with --draft and a target commit replaced the assets of the release
C18_Witness ==
    /\ ppc = "done" /\ presult = POk
    /\ phist.existed
    /\ pargs.draft /\ pargs.hash
    /\ phist.meta = [draft |-> FALSE, target_commitish |-> FALSE, notes |-> <<"old">>]
    /\ release_notes # <<"old">>
    /\ \E k \in 1..Len(phist.requests) : phist.requests[k] = "upload"

\* the run has targets, every one was built without a failure and the files
\* to upload are complete
AllTargetsBuilt ==
    /\ pargs.targets # <<>>
    /\ phist.failed = <<>>
    /\ Len(phist.built) = Len(pargs.targets)
    /\ ppc \notin {"start", "build", "built"}

\* the recorded name of a manifest line: what follows digest and separator
RecordedName(line) == SubSeq(line, 4, Len(line))

\* C19: a run over N targets whose builds all succeed produces exactly N
\* archives, one per target, and unless checksums are disabled one manifest
\* SHA256SUMS with exactly one line for each archive and none for itself; a
\* run that ends with success has uploaded each of these files exactly once.
C19_ArchivesAndManifest ==
    AllTargetsBuilt =>
        LET n == Len(pargs.targets) IN
        /\ Len(all_archives) = n + (IF pargs.no_checksum THEN 0 ELSE 1)
        /\ \A k \in 1..n :
              all_archives[k].name
                 = <<pargs.repo, "-", pargs.targets[k], "-">> \o tag \o <<".tar.gz">>
        /\ ~pargs.no_checksum =>
              LET m == all_archives[n + 1] IN
              /\ m.name = <<"SHA256SUMS">>
              /\ Len(m.lines) = n
              /\ \A k \in 1..n :
                    Cardinality({i \in 1..Len(m.lines) :
                                   RecordedName(m.lines[i]) = all_archives[k].name}) = 1
              /\ \A i \in 1..Len(m.lines) : RecordedName(m.lines[i]) # <<"SHA256SUMS">>
        /\ (ppc = "done" /\ presult = POk) =>
              /\ phist.uploaded = [k \in 1..Len(all_archives) |-> all_archives[k].name]
              /\ \A k \in 1..Len(all_archives) :
                    Cardinality({a \in 1..Len(ReleaseById(forge, prelease).assets) :
                        ReleaseById(forge, prelease).assets[a].name
                           = all_archives[k].name}) = 1

\* two targets: two archives and the manifest, uploaded in this order
C19_Witness ==
    /\ ppc = "done" /\ presult = POk
    /\ pargs.targets = <<"linux", "darwin">>
    /\ ~pargs.no_checksum
    /\ Len(all_archives) = 3
    /\ Len(all_archives[3].lines) = 2
    /\ phist.uploaded = <<all_archives[1].name, all_archives[2].name, <<"SHA256SUMS">>>>

\* the run resolved its tag, is past its build loop and holds no archive
EndedWithoutArchive ==
    /\ phist.dir
    /\ ppc \notin {"build", "built"}
    /\ all_archives = <<>>

\* C20 as stated: a run in which no target produced an archive ends with
\* BuildFailed for 'all targets', without a manifest and without a request
\* that creates or modifies a release.
C20_NoArchiveIsAllTargets ==
    EndedWithoutArchive =>
        /\ ppc = "done"
        /\ presult = PErr("BuildFailed", <<"all targets">>)
        /\ ~phist.checksums
        /\ phist.requests = <<>>

\* C20, amended: a run that holds no archive after its build loop ends
\* without a manifest and without a request that creates or modifies a
\* release; its error is BuildFailed for 'all targets' when no build failed
\* (the target list was empty), and the BuildFailed of the failed target
\* when a build failed.
C20_NoArchiveIsTerminal ==
    EndedWithoutArchive =>
        /\ ppc = "done"
        /\ presult.err = "BuildFailed"
        /\ IF phist.failed = <<>>
           THEN /\ presult = PErr("BuildFailed", <<"all targets">>)
                /\ pargs.targets = <<>>
           ELSE presult.info[1] = phist.failed[1]
        /\ ~phist.checksums
        /\ phist.requests = <<>>

\* a run with an empty target list
C20_Witness ==
    /\ ppc = "done"
    /\ pargs.targets = <<>>
    /\ phist.dir /\ phist.built = <<>>
    /\ presult = PErr("BuildFailed", <<"all targets">>)
    /\ phist.requests = <<>>

\* C21: for a tagged release a failed fetch of the auto-generated notes does
\* not fail the run: the step after it is the release lookup, the notes lack
\* the auto-generated section, and an error the run ends with afterwards
\* comes from a release or asset request.
C21_AutoNotesBestEffort ==
    /\ [][phist'.auto = "failed" /\ phist.auto # "failed"
             => ppc' = "release_lookup" /\ presult' = PNone]_vars
    /\ [](phist.auto = "failed" =>
             /\ ~pargs.hash
             /\ release_notes = <<"notes">>
             /\ ppc \in {"release_lookup", "release_create", "asset_exists",
                         "delete", "upload", "cargo_publish", "done"}
             /\ (ppc = "done" /\ presult.status = "err") =>
                   presult.err \in {"ReleaseCreation", "GitHubApi", "NoToken",
                                    "DeleteFailed", "AssetUpload", "Io"})

\* the fetch failed, the release was created with the plain notes and the
\* files were uploaded
C21_Witness ==
    /\ ppc = "done" /\ presult = POk
    /\ phist.auto = "failed"
    /\ ~phist.existed
    /\ ReleaseById(forge, prelease).notes = <<"notes">>
    /\ phist.uploaded # <<>>

\* C22: a run given an explicit tag does not fail for want of a git
\* repository: it never ends with the Git error, which only a run that had
\* to resolve its tag from the repository may meet.
C22_ExplicitTagNeedsNoGit ==
    (ppc = "done" /\ pargs.tag # NoName /\ ~penv.git) =>
        ~(presult.status = "err" /\ presult.err = "Git")

\* C29: ReleaseNotFound is the report of a release that does not exist: a
\* run whose release exists and whose requests failed in transport does not
\* end with ReleaseNotFound.
C29_ReleaseNotFoundOnlyWhenAbsent ==
    (ipc = "done" /\ iresult.status = "err" /\ iresult.err = "ReleaseNotFound")
        => ~irelease.exists

\* C36: a manifest without a line for the asset gives an outcome of its own:
\* the run does not end with the error that reports a mismatch between an
\* expected and an actual digest.
C36_NotFoundIsNotMismatch ==
    (/\ ipc = "done"
     /\ checksum_file # NoAsset
     /\ temp_file # NoTempFile
     /\ parse_checksum(checksum_file.lines, asset.name) = NoChecksum)
        => iresult.err # "ChecksumVerification"

\* C39: in every state of an install run that did not take the fallback, the
\* install directory was created or written by the run only if all earlier
\* steps succeeded in order: the release was fetched, an asset matched, its
\* download completed, the checksum was verified or verification was
\* switched off, the signature asset was found or no signature verification
\* was requested, the archive was extracted and held an executable.
C39_WritesOnlyAfterAllSteps ==
    (~fallbackInvoked /\ (dirCreated \/ installDir # {})) =>
        /\ irelease.exists /\ release = irelease
        /\ asset # NoAsset
        /\ \E i \in 1..Len(irelease.assets) : irelease.assets[i] = asset
        /\ temp_file # NoTempFile /\ temp_file.bytes = asset.bytes
        /\ \/ iargs.skip_checksum
           \/ /\ checksum_file # NoAsset
              /\ \E l \in 1..Len(checksum_file.lines) :
                    /\ EndsWith(checksum_file.lines[l], asset.name)
                    /\ to_lowercase(Head(checksum_file.lines[l]))
                         = to_lowercase(calculate_sha256(temp_file.bytes))
        /\ \/ ~iargs.verify_signature
           \/ ~NoSignatureFor(asset.name)
        /\ extracted
        /\ asset.exes # <<>>

\* the run verified the checksum, downloaded the signature and installed
C39_Witness ==
    /\ ipc = "done" /\ iresult = IOk
    /\ ~fallbackInvoked
    /\ ~iargs.skip_checksum /\ checksum_file # NoAsset
    /\ iargs.verify_signature
    /\ dirCreated /\ installDir # {}

\* C28: a publish run that returns success went on after no failed step
\* other than the fetch of the auto-generated notes: not after a failed
\* release lookup, a failed lookup of the previous tag, or a cargo publish
\* that exited non-zero.
C28_NoOtherFailureAbsorbed ==
    (ppc = "done" /\ presult = POk) => phist.tolerated \subseteq {"auto_notes"}

\* C30: when a token is supplied to the client explicitly, the delete and
\* upload requests carry it whatever the environment holds: no run given
\* --github-token ends for want of a token.
C30_ExplicitTokenUsed ==
    (ppc = "done" /\ pargs.github_token) =>
        /\ presult # PErr("NoToken", <<>>)
        /\ presult # PErr("AssetUpload", <<"No GitHub token">>)

\* C31: the steps of a publish run occur in order: the output directory is
\* created only with the tag resolved; a request that changes the forge is
\* made only after every target was built and archived and the manifest
\* generated; an asset is deleted or uploaded only with the release in hand;
\* and a file is uploaded only after the asset the lookup found under its
\* name was deleted.
C31_StepOrder ==
    /\ phist.dir => tag # NoName
    /\ phist.requests # <<>> =>
          /\ phist.built = pargs.targets
          /\ Len(all_archives) >= Len(pargs.targets)
          /\ pargs.no_checksum \/ phist.checksums
    /\ (\E k \in 1..Len(phist.requests) : phist.requests[k] \in {"delete", "upload"})
          => prelease # NoId
    /\ ppc = "upload" => asset_exists(forge, prelease, all_archives[ai].name) = NoId

\* a run over two targets found its release, deleted an asset and uploaded
\* in its place, and ended in success
C31_Witness ==
    /\ ppc = "done" /\ presult = POk
    /\ phist.dir /\ phist.checksums /\ phist.existed
    /\ Len(pargs.targets) = 2
    /\ Len(phist.requests) >= 2
    /\ phist.requests[1] = "delete" /\ phist.requests[2] = "upload"

\* C32: a forge request of the publish run that fails in transport (a
\* retryable failure) is followed by another attempt: the step in which a
\* run meets its first such failure does not end the run with an error.
C32_PublishRequestsRetried ==
    [][(phist'.transport /\ ~phist.transport)
          => ~(ppc' = "done" /\ presult'.status = "err")]_vars

\* the upload step of a file whose asset the run has just deleted
UploadAfterDelete == ppc = "upload" /\ found_asset # NoId

\* C33: when the upload of a file fails after the asset of its name was
\* deleted, the run ends with an error and rolls nothing back: the forge is
\* left as the failed step found it, with the release, with the assets the
\* run uploaded before, and without an asset of the failed file's name; the
\* local archives and manifest stay.
C33_FailedUploadLeavesGap ==
    [][(UploadAfterDelete /\ ppc' = "done" /\ presult'.status = "err")
          => /\ presult' = PErr("AssetUpload", <<all_archives[ai].name>>)
             /\ forge' = forge
             /\ all_archives' = all_archives
             /\ ReleaseIdByTag(forge', tag) = prelease
             /\ \A k \in 1..Len(phist.uploaded) :
                    NameTaken(forge', prelease, phist.uploaded[k])
             /\ ~NameTaken(forge', prelease, all_archives[ai].name)]_vars

\* the second file's asset was deleted and its upload failed, after the first
\* file was replaced
C33_Witness ==
    /\ ppc = "done"
    /\ Len(all_archives) >= 2
    /\ ai = 2 /\ found_asset # NoId
    /\ presult = PErr("AssetUpload", <<all_archives[2].name>>)
    /\ phist.requests = <<"delete", "upload", "delete", "upload">>
    /\ phist.uploaded = <<all_archives[1].name>>
    /\ NameTaken(forge, prelease, all_archives[1].name)
    /\ ~NameTaken(forge, prelease, all_archives[2].name)

\* C34: asset_exists returns None only when the release holds no asset of
\* the name: a run that goes to upload a file because the lookup returned
\* None holds a release without an asset of the file's name, wherever the
\* release stands in the listing of the repository's releases.
C34_AssetExistsFindsAsset ==
    (ppc = "upload" /\ found_asset = NoId)
        => ~NameTaken(forge, prelease, all_archives[ai].name)

(***************************************************************************)
(* Claims about packaging and extraction, checked under SpecMatch.         *)
(***************************************************************************)

\* C23: extracting the archive created from a non-empty list of files gives
\* exactly the files' names, and each extracted file is executable exactly
\* when its source file was.
C23_ArchiveRoundTrip ==
    (fcall.fn = "round_trip" /\ fret.done) =>
        /\ {f.name : f \in fret.val} = {fcall.files[k].name : k \in 1..Len(fcall.files)}
        /\ \A k \in 1..Len(fcall.files) : \A f \in fret.val :
               f.name = fcall.files[k].name =>
                   (is_executable(f.mode) <=> is_executable(fcall.files[k].mode))

\* C35: on a release filled by one publish run over distinct targets,
\* find_asset for a published target, without a binary filter, returns the
\* archive built for that target, in whatever order the assets are listed.
C35_FindsArchiveOfTarget ==
    (fcall.fn = "find_published" /\ fret.done) =>
        fret.val.name = archive_name(fcall.repo, fcall.target, fcall.tag, fcall.format)

\* C37: for every asset find_asset selects, the temporary file download_asset
\* writes has a name that ends with the archive suffix of the asset's name,
\* and extract_archive does not reject it as an unsupported format.
C37_SuffixesAgree ==
    (fcall.fn = "select_download_extract" /\ fret.done /\ fret.val.asset # NoAsset) =>
        /\ \E suf \in ArchiveSuffixes :
               EndsWith(fret.val.asset.name, suf) /\ EndsWith(fret.val.temp.name, suf)
        /\ fret.val.supported

\* a .tar.bz2 asset listed after a .deb file is selected, downloaded to a
\* file ending in .tar.bz2 and accepted
C37_Witness ==
    /\ fcall.fn = "select_download_extract" /\ fret.done
    /\ Len(fcall.release.assets) = 2
    /\ fcall.release.assets[1].name = <<"tool", "-", "linux", ".deb">>
    /\ fret.val.asset.name = <<"tool", "-", "linux", ".tar.bz2">>
    /\ fret.val.temp.name = <<"tmp", ".tar.bz2">>
    /\ fret.val.supported

\* C38: every per-binary install command of the release notes works against
\* the release of the run that wrote it: for each listed binary and each
\* published target, find_asset with the binary's name as filter selects an
\* asset of the release.
C38_ListedCommandFindsAsset ==
    (fcall.fn = "find_listed_binary" /\ fret.done) => fret.val # NoAsset

(***************************************************************************)
(* Claims about the installation of the executables.                       *)
(***************************************************************************)

\* C24: a default-mode install run (neither --bin nor --bins) that succeeds
\* on an archive none of whose executables is named like the repository
\* leaves, in the install directory, a file that bears the name of an
\* executable of the archive.
C24_ExecutableKeepsOwnName ==
    (/\ ipc = "done" /\ iresult = IOk /\ extracted
     /\ ~iargs.bins /\ iargs.bin = NoName
     /\ \A i \in 1..Len(asset.exes) : asset.exes[i].name # iargs.repo)
        => \E f \in installDir : \E i \in 1..Len(asset.exes) :
               f.name = asset.exes[i].name

\* the call of install_binaries returned success in the given mode
InstalledIn(bins) ==
    /\ fcall.fn = "install_binaries" /\ fret.done
    /\ fcall.args.bins = bins /\ fcall.args.bin = NoName
    /\ fret.val.result = IOk

\* C25: in default mode the executable installed is the first one listed
\* whose file name contains the repository name, or the first one listed
\* when no name contains it; exactly one file is written, with that
\* executable's content, and the rest of the directory is left as it was.
C25_DefaultModeSelection ==
    InstalledIn(FALSE) =>
        LET exes == fcall.exes
            named == {i \in 1..Len(exes) : Contains(exes[i].name, fcall.args.repo)}
            sel == IF named = {} THEN 1
                   ELSE CHOOSE i \in named : \A j \in named : i <= j
            written == fret.val.files \ fcall.files
        IN  /\ Cardinality(written) = 1
            /\ \A f \in written : f.bytes = exes[sel].bytes
            /\ \A f \in fcall.files \ fret.val.files : \E g \in written : g.name = f.name

\* helper is listed before tool: tool, not the first executable, is installed
C25_Witness ==
    /\ InstalledIn(FALSE)
    /\ Len(fcall.exes) = 2
    /\ fcall.exes[1].name = <<"helper">> /\ fcall.exes[2].name = <<"tool">>
    /\ \E f \in fret.val.files : f.bytes = fcall.exes[2].bytes

\* C26: after a successful install of all executables (--bins) the install
\* directory holds the content of every executable found: none was
\* overwritten by another of the same run, and the run added or replaced as
\* many files as it found executables.
C26_AllModeInstallsEvery ==
    InstalledIn(TRUE) =>
        /\ \A i \in 1..Len(fcall.exes) :
               \E f \in fret.val.files : f.bytes = fcall.exes[i].bytes
        /\ Cardinality(fret.val.files \ fcall.files) = Len(fcall.exes)

(***************************************************************************)
(* Claims about concurrent install runs, checked under SpecConcurrent.     *)
(***************************************************************************)

\* the run of process p has succeeded and the directory holds a complete,
\* executable copy of one of its executables
OwnBinaryInPlace(p) ==
    \E f \in sharedDir : \E i \in 1..Len(installers[p].exes) :
        f.bytes = installers[p].exes[i].bytes /\ f.exec

DefaultModeDistinctNames ==
    /\ \A p \in DOMAIN installers :
           ~installers[p].args.bins /\ installers[p].args.bin = NoName
    /\ \A p, q \in DOMAIN installers :
           p # q => installers[p].args.repo # installers[q].args.repo

C40_ExactNameInstalled ==
    (/\ fcall.fn = "install_binaries" /\ fret.done
     /\ ~fcall.args.bins /\ fcall.args.bin # NoName
     /\ \E i \in 1..Len(fcall.exes) : fcall.exes[i].name = fcall.args.bin)
        => \E f \in fret.val.files : \E i \in 1..Len(fcall.exes) :
               /\ fcall.exes[i].name = fcall.args.bin
               /\ f.name = fcall.args.bin
               /\ f.bytes = fcall.exes[i].bytes

====
